---- MODULE Spec2Model ----
(***************************************************************************)
(* Local-Search-Aggregator backend: the LLM streaming client               *)
(* (services/llm_service.py, generate_answer_streaming) and the unified    *)
(* SSE orchestrator (routes.py, unified_endpoint / generate_unified_stream)*)
(*                                                                         *)
(* Text is a sequence of symbols.  A character received from a backend is  *)
(* a one-character string; a sentence the program itself writes (closing   *)
(* sentence, fallback texts) is one symbol holding the literal.            *)
(***************************************************************************)
EXTENDS Integers, Sequences, FiniteSets, TLC

VARIABLES
    \* ---- generate_answer_streaming (llm_service.py) ----
    query,                        \* the query argument
    max_iterations,               \* the max_iterations argument
    gpc,                          \* "idle" | "stream" | "done" | "raised"
    rest,                         \* backend: text the LLM has still to send
    nframes,                      \* backend: frames delivered so far
    buffer,                       \* llm_service.py:157
    has_yielded,                  \* llm_service.py:156
    iterations,                   \* llm_service.py:158
    natural_completion_detected,  \* llm_service.py:172
    yielded,                      \* every fragment the generator yielded, in order
    received,                     \* every non-empty text chunk read from the backend
    exit_reason,                  \* how the frame loop was left
    llm_request,                  \* options and timeout of the request sent to
                                  \* the LLM backend, <<>> before it is sent
    malformed_at,                 \* text chunks read when a malformed frame
                                  \* was last skipped, -1 if none was
    \* ---- unified_endpoint / generate_unified_stream (routes.py) ----
    pc,                           \* position of the request task
    stream_request,               \* the StreamRequest of the request
    active_streams,               \* routes.py:37, request_id -> session record
    emitted,                      \* the SSE items written to the client, in order
    search_results,               \* routes.py:283 / 325
    idx,                          \* routes.py:305, results streamed so far
    has_content,                  \* routes.py:346
    chunk_count,                  \* routes.py:345
    taken,                        \* fragments of the generator consumed by async for
    gen_input,                    \* the search_results handed to the generator
    search_failed,                \* the search call raised
    disc_at,                      \* items written when the disconnected flag
                                  \* was set, -1 while it is not set
    disc_before_gen,              \* ... before the first fragment was handled
    \* ---- session registry and cleanup_active_streams (routes.py) ----
    now,                          \* time.time(), in seconds
    background,                   \* request_id -> completion hooks added and not yet run
    nreg,                         \* requests received so far
    sweep_pc,                     \* position of the cleanup task
    sleep_left,                   \* what is left of its asyncio.sleep(60)
    sweep_now,                    \* routes.py:163, now
    scan_rest,                    \* keys the items() iterator has still to visit
    scan_used,                    \* size of the dict when the iterator was made
    keys_to_remove,               \* routes.py:164
    scan_start,                   \* the registry as the cycle found it
    swept,                        \* keys the cycle has deleted
    survived_error,               \* a cycle has ended in the except branch
    \* ---- search_serper (services/search_service.py) ----
    search_pc,                    \* "idle" | "awaiting" | "returned" | "raised"
    search_timeout,               \* the timeout argument, in seconds
    search_backend,               \* what the search backend does with the request
    search_requests,              \* requests sent to the search backend so far
    search_calls,                 \* calls of search_serper so far
    search_outcome,               \* the value returned or the HTTPException raised
    \* ---- health_check (routes.py) ----
    health_pc,                    \* "idle" | "ollama" | "search" | "returned"
    ollama_probe,                 \* what the LLM backend did with GET /api/tags
    search_probe,                 \* what the search backend did with the test query
    services,                     \* routes.py:72
    overall_status,               \* routes.py:73
    health_response,              \* the HealthCheckResponse returned
    \* ---- the HTTP request of unified_endpoint (routes.py) ----
    http_request,                 \* its body (None without one) and query parameters
    http_status,                  \* status of the response, 0 before it
    \* ---- format_optimized_prompt (llm_service.py) ----
    prompt_args,                  \* the search_results argument
    prompt                        \* the prompt returned

gvars == <<query, max_iterations, gpc, rest, nframes, buffer, has_yielded,
           iterations, natural_completion_detected, yielded, received,
           exit_reason, llm_request, malformed_at>>
ovars == <<pc, stream_request, active_streams, emitted, search_results, idx,
           has_content, chunk_count, taken, gen_input, search_failed,
           disc_at, disc_before_gen>>
rvars == <<now, background, nreg, sweep_pc, sleep_left, sweep_now, scan_rest,
           scan_used, keys_to_remove, scan_start, swept, survived_error>>
svars == <<search_pc, search_timeout, search_backend, search_requests,
           search_calls, search_outcome, health_pc, ollama_probe,
           search_probe, services, overall_status, health_response,
           http_request, http_status, prompt_args, prompt>>
\* the variables of search_serper and those of health_check
cvars == <<search_pc, search_timeout, search_backend, search_requests,
           search_calls, search_outcome>>
hvars == <<health_pc, ollama_probe, search_probe, services, overall_status,
           health_response>>
evars == <<http_request, http_status>>
pvars == <<prompt_args, prompt>>
vars == <<gvars, ovars, rvars, svars>>

----------------------------------------------------------------------------
(* Bounds of the model *)

\* frames the backend delivers in one streaming call
MaxFrames == 3
\* largest max_iterations argument tried in a direct call
MaxIter == 3
\* organic entries in a search response
MaxOrganic == 2

----------------------------------------------------------------------------
(* Text helpers (Python str operations) *)

Whitespace == {" ", "\n", "\t", "\r"}

\* the letters that str.lower() changes, among the characters of the model
LowerOf ==
    [c \in {"A","B","C","D","E","F","G","H","I","J","K","L","M",
            "N","O","P","Q","R","S","T","U","V","W","X","Y","Z"} |->
        CASE c = "A" -> "a" [] c = "B" -> "b" [] c = "C" -> "c" [] c = "D" -> "d"
          [] c = "E" -> "e" [] c = "F" -> "f" [] c = "G" -> "g" [] c = "H" -> "h"
          [] c = "I" -> "i" [] c = "J" -> "j" [] c = "K" -> "k" [] c = "L" -> "l"
          [] c = "M" -> "m" [] c = "N" -> "n" [] c = "O" -> "o" [] c = "P" -> "p"
          [] c = "Q" -> "q" [] c = "R" -> "r" [] c = "S" -> "s" [] c = "T" -> "t"
          [] c = "U" -> "u" [] c = "V" -> "v" [] c = "W" -> "w" [] c = "X" -> "x"
          [] c = "Y" -> "y" [] OTHER -> "z"]

LowerChar(c) == IF c \in DOMAIN LowerOf THEN LowerOf[c] ELSE c

\* str.lower()
Lower(s) == [i \in 1..Len(s) |-> LowerChar(s[i])]

SetMin(S) == CHOOSE x \in S : \A y \in S : x <= y

\* str.find(t): 0-based index of the first occurrence of t in s, or -1
Find(s, t) ==
    LET hits == {i \in 1..(Len(s) - Len(t) + 1) :
                    \A j \in 1..Len(t) : s[i + j - 1] = t[j]}
    IN  IF hits = {} THEN -1 ELSE SetMin(hits) - 1

\* t in s
Contains(s, t) == Find(s, t) # -1

\* str.strip()
Strip(s) ==
    LET keep == {i \in 1..Len(s) : s[i] \notin Whitespace}
    IN  IF keep = {} THEN <<>>
        ELSE SubSeq(s, SetMin(keep), CHOOSE i \in keep : \A j \in keep : j <= i)

\* s[:n] and s[n:] for 0 <= n
Take(s, n) == SubSeq(s, 1, IF n < Len(s) THEN n ELSE Len(s))
Drop(s, n) == SubSeq(s, n + 1, Len(s))

RECURSIVE Concat(_)
Concat(ss) == IF ss = <<>> THEN <<>> ELSE Head(ss) \o Concat(Tail(ss))

----------------------------------------------------------------------------
(* services/llm_service.py: literals *)

END_TOKEN == <<"E","N","D"," ","O","F"," ","R","E","S","P","O","N","S","E">>

IN_CONCLUSION == <<"I","n"," ","c","o","n","c","l","u","s","i","o","n">>
TO_SUMMARIZE == <<"T","o"," ","s","u","m","m","a","r","i","z","e">>
IN_SUMMARY == <<"I","n"," ","s","u","m","m","a","r","y">>
THANK_YOU == <<"T","h","a","n","k"," ","y","o","u"," ","f","o","r"," ",
               "y","o","u","r"," ","q","u","e","s","t","i","o","n">>
I_HOPE == <<"I"," ","h","o","p","e"," ","t","h","i","s"," ","h","e","l","p","s">>

completion_indicators ==
    {IN_CONCLUSION, TO_SUMMARIZE, IN_SUMMARY, THANK_YOU, I_HOPE, END_TOKEN}

CLOSING ==
    <<"\n\nI hope this information addresses your question. Let me know if you need further clarification.">>

EMERGENCY_FALLBACK ==
    <<"I apologize, but I couldn't process your request at this time. Please try again later.">>

fallback_answer(q) ==
    <<"I'm sorry, I couldn't generate a complete response for '">> \o q
        \o <<"'. Please try a more specific question or check back later.">>

----------------------------------------------------------------------------
(* services/llm_service.py: format_optimized_prompt, as far as it can fail *)

Get(d, k, default) == IF k \in DOMAIN d THEN d[k] ELSE default

\* search_results.get("organic", [])[:5]
OrganicTop5(sr) == Take(Get(sr, "organic", <<>>), 5)

\* len(snippet) raises TypeError when an entry's snippet is not a string
PromptRaises(sr) ==
    \E i \in 1..Len(OrganicTop5(sr)) : OrganicTop5(sr)[i].snippet # "str"

----------------------------------------------------------------------------
(* services/llm_service.py: generate_answer_streaming *)

\* for indicator in completion_indicators: indicator.lower() in buffer.lower()
IndicatorFound(buf) ==
    LET lowered == Lower(buf)
    IN  \E ind \in completion_indicators : Contains(lowered, Lower(ind))

\* the text yielded when the end token is found at end_token_pos
FinalChunk_Whole(buf, temp_buffer, end_token_pos) ==
    LET final_chunk == Strip(Take(temp_buffer, end_token_pos))
    IN  IF end_token_pos > 0 /\ Len(final_chunk) > Len(buf)
        THEN <<final_chunk>>
        ELSE <<>>
FinalChunk(buf, temp_buffer, end_token_pos) ==
    LET final_chunk == Strip(Take(temp_buffer, end_token_pos))
    IN  IF end_token_pos > 0 /\ Len(final_chunk) > Len(buf)
        THEN <<Drop(final_chunk, Len(buf))>>
        ELSE <<>>

CapClosing_Inverted(nat) == IF nat THEN <<CLOSING>> ELSE <<>>
\* the closing sentence added when the iteration cap stops the loop
CapClosing(nat) == IF ~nat THEN <<CLOSING>> ELSE <<>>

HandleText_StopsOnPhrase(buf, hy, it, nat, maxit, text_chunk) ==
    LET temp_buffer == buf \o text_chunk
        end_token_pos == Find(temp_buffer, END_TOKEN)
        nat2 == nat \/ IndicatorFound(temp_buffer)
    IN  IF end_token_pos # -1
        THEN [out |-> FinalChunk(buf, temp_buffer, end_token_pos),
              buffer |-> buf, has_yielded |-> hy, iterations |-> it,
              natural |-> TRUE, leave |-> TRUE, reason |-> "sentinel"]
        ELSE IF it + 1 >= maxit
        THEN [out |-> <<text_chunk>> \o CapClosing(nat2),
              buffer |-> temp_buffer, has_yielded |-> TRUE, iterations |-> it + 1,
              natural |-> nat2, leave |-> TRUE, reason |-> "cap"]
        ELSE [out |-> <<text_chunk>>,
              buffer |-> temp_buffer, has_yielded |-> TRUE, iterations |-> it + 1,
              natural |-> nat2, leave |-> nat2, reason |-> "phrase"]

\* one non-empty text chunk: what is yielded, the new locals, and whether the
\* loop is left
HandleText(buf, hy, it, nat, maxit, text_chunk) ==
    LET temp_buffer == buf \o text_chunk
        end_token_pos == Find(temp_buffer, END_TOKEN)
        nat2 == nat \/ IndicatorFound(temp_buffer)
    IN  IF end_token_pos # -1
        THEN [out |-> FinalChunk(buf, temp_buffer, end_token_pos),
              buffer |-> buf, has_yielded |-> hy, iterations |-> it,
              natural |-> TRUE, leave |-> TRUE, reason |-> "sentinel"]
        ELSE IF it + 1 >= maxit
        THEN [out |-> <<text_chunk>> \o CapClosing(nat2),
              buffer |-> temp_buffer, has_yielded |-> TRUE, iterations |-> it + 1,
              natural |-> nat2, leave |-> TRUE, reason |-> "cap"]
        ELSE [out |-> <<text_chunk>>,
              buffer |-> temp_buffer, has_yielded |-> TRUE, iterations |-> it + 1,
              natural |-> nat2, leave |-> FALSE, reason |-> "none"]

IncompleteClosing_NoCapTest(hy, nat, it, maxit) ==
    IF hy /\ ~nat THEN <<CLOSING>> ELSE <<>>
\* "Check if the response feels incomplete"
IncompleteClosing(hy, nat, it, maxit) ==
    IF hy /\ ~nat /\ it < maxit THEN <<CLOSING>> ELSE <<>>

NoResponseFallback_OnlyUnyielded(q, hy, buf) ==
    IF ~hy THEN <<fallback_answer(q)>> ELSE <<>>
\* "If we didn't get any valid response, yield a fallback"
NoResponseFallback(q, hy, buf) ==
    IF ~hy \/ Strip(buf) = <<>> THEN <<fallback_answer(q)>> ELSE <<>>

\* "Always ensure we yield something, even if everything else fails"
EmergencyFallback(hy) == IF ~hy THEN <<EMERGENCY_FALLBACK>> ELSE <<>>

AfterLoop_NoFallback(kind, q, hy, buf, nat, it, maxit) ==
    IF kind = "normal" THEN IncompleteClosing(hy, nat, it, maxit) ELSE <<>>
\* what is yielded after the frame loop, by the way the loop was left:
\*   "normal"    break or end of the frame stream
\*   "transport" httpx.HTTPStatusError / httpx.RequestError
\*   "exception" any other exception (outer handler)
AfterLoop(kind, q, hy, buf, nat, it, maxit) ==
    CASE kind = "normal" ->
            IncompleteClosing(hy, nat, it, maxit) \o NoResponseFallback(q, hy, buf)
                \o EmergencyFallback(hy)
      [] kind = "transport" ->
            NoResponseFallback(q, hy, buf) \o EmergencyFallback(hy)
      [] OTHER ->
            <<fallback_answer(q)>> \o EmergencyFallback(hy)

\* the consumer is waiting for the next fragment: a direct call consumes at
\* once, the unified stream asks for a fragment when it has handled the last
GenRunnable ==
    /\ gpc = "stream"
    /\ \/ pc = "direct"
       \/ pc = "generating" /\ taken = Len(yielded)

\* the loop is left with `out` yielded by the last frame
Leave(kind, reason, out, buf, hy, it, nat) ==
    /\ gpc' = "done"
    /\ exit_reason' = reason
    /\ buffer' = buf
    /\ has_yielded' = hy
    /\ iterations' = it
    /\ natural_completion_detected' = nat
    /\ yielded' = yielded \o out
                    \o AfterLoop(kind, query, hy, buf, nat, it, max_iterations)

RecvMalformed_Counts ==
    /\ GenRunnable
    /\ nframes < MaxFrames
    /\ nframes' = nframes + 1
    /\ malformed_at' = Len(received)
    /\ iterations' = iterations + 1
    /\ UNCHANGED llm_request
    /\ UNCHANGED <<query, max_iterations, gpc, rest, buffer, has_yielded,
                   natural_completion_detected, yielded, received,
                   exit_reason>>
    /\ UNCHANGED ovars
    /\ UNCHANGED rvars
    /\ UNCHANGED svars
\* json.JSONDecodeError: "Skip malformed chunks"
RecvMalformed ==
    /\ GenRunnable
    /\ nframes < MaxFrames
    /\ nframes' = nframes + 1
    /\ malformed_at' = Len(received)
    /\ UNCHANGED llm_request
    /\ UNCHANGED <<query, max_iterations, gpc, rest, buffer, has_yielded,
                   iterations, natural_completion_detected, yielded, received,
                   exit_reason>>
    /\ UNCHANGED ovars
    /\ UNCHANGED rvars
    /\ UNCHANGED svars

\* a frame that is an object, not done, with no or empty "response"
RecvNoText ==
    /\ GenRunnable
    /\ nframes < MaxFrames
    /\ nframes' = nframes + 1
    /\ UNCHANGED <<llm_request, malformed_at>>
    /\ UNCHANGED <<query, max_iterations, gpc, rest, buffer, has_yielded,
                   iterations, natural_completion_detected, yielded, received,
                   exit_reason>>
    /\ UNCHANGED ovars
    /\ UNCHANGED rvars
    /\ UNCHANGED svars

\* a frame with a non-empty "response": the next n characters of the text
RecvText ==
    /\ GenRunnable
    /\ nframes < MaxFrames
    /\ \E n \in 1..Len(rest) :
         LET text_chunk == Take(rest, n)
             r == HandleText(buffer, has_yielded, iterations,
                             natural_completion_detected, max_iterations,
                             text_chunk)
         IN  /\ rest' = Drop(rest, n)
             /\ received' = Append(received, text_chunk)
             /\ IF r.leave
                THEN Leave("normal", r.reason, r.out, r.buffer, r.has_yielded,
                           r.iterations, r.natural)
                ELSE /\ yielded' = yielded \o r.out
                     /\ buffer' = r.buffer
                     /\ has_yielded' = r.has_yielded
                     /\ iterations' = r.iterations
                     /\ natural_completion_detected' = r.natural
                     /\ UNCHANGED <<gpc, exit_reason>>
    /\ nframes' = nframes + 1
    /\ UNCHANGED <<llm_request, malformed_at>>
    /\ UNCHANGED <<query, max_iterations>>
    /\ UNCHANGED ovars
    /\ UNCHANGED rvars
    /\ UNCHANGED svars

\* a frame with "done": true
RecvDone ==
    /\ GenRunnable
    /\ Leave("normal", "done", <<>>, buffer, has_yielded, iterations,
             natural_completion_detected)
    /\ nframes' = nframes + 1
    /\ UNCHANGED <<llm_request, malformed_at>>
    /\ UNCHANGED <<query, max_iterations, rest, received>>
    /\ UNCHANGED ovars
    /\ UNCHANGED rvars
    /\ UNCHANGED svars

\* response.aiter_text() is exhausted without a done frame
StreamEnd ==
    /\ GenRunnable
    /\ Leave("normal", "end", <<>>, buffer, has_yielded, iterations,
             natural_completion_detected)
    /\ UNCHANGED <<llm_request, malformed_at>>
    /\ UNCHANGED <<query, max_iterations, rest, nframes, received>>
    /\ UNCHANGED ovars
    /\ UNCHANGED rvars
    /\ UNCHANGED svars

\* httpx.RequestError: connection failure, or a read failure during the stream
RequestError ==
    /\ GenRunnable
    /\ Leave("transport", "request_error", <<>>, buffer, has_yielded,
             iterations, natural_completion_detected)
    /\ UNCHANGED <<llm_request, malformed_at>>
    /\ UNCHANGED <<query, max_iterations, rest, nframes, received>>
    /\ UNCHANGED ovars
    /\ UNCHANGED rvars
    /\ UNCHANGED svars

\* httpx.HTTPStatusError from response.raise_for_status(), before any frame
HTTPStatusError ==
    /\ GenRunnable
    /\ nframes = 0
    /\ Leave("transport", "http_error", <<>>, buffer, has_yielded,
             iterations, natural_completion_detected)
    /\ UNCHANGED <<llm_request, malformed_at>>
    /\ UNCHANGED <<query, max_iterations, rest, nframes, received>>
    /\ UNCHANGED ovars
    /\ UNCHANGED rvars
    /\ UNCHANGED svars

\* a frame that parses as JSON but is no object with a text "response"
\* (data.get or buffer + text_chunk raises): the outer handler
RecvBadShape ==
    /\ GenRunnable
    /\ nframes < MaxFrames
    /\ Leave("exception", "exception", <<>>, buffer, has_yielded,
             iterations, natural_completion_detected)
    /\ nframes' = nframes + 1
    /\ UNCHANGED <<llm_request, malformed_at>>
    /\ UNCHANGED <<query, max_iterations, rest, received>>
    /\ UNCHANGED ovars
    /\ UNCHANGED rvars
    /\ UNCHANGED svars

\* Optional[int]: <<>> is None, <<n>> is n
None == <<>>
Some(n) == <<n>>

\* config.py
OLLAMA_TIMEOUT == 180
OLLAMA_MAX_TOKENS == 2048

\* timeout = timeout or settings.OLLAMA_TIMEOUT
ClientTimeout(timeout) ==
    IF timeout = None \/ timeout = Some(0) THEN OLLAMA_TIMEOUT ELSE timeout[1]

\* payload["options"] and the timeout of the httpx client; temperature and
\* top_p are written in tenths (0.7 is 7, 0.9 is 9)
LLMRequest(timeout) ==
    [num_predict |-> OLLAMA_MAX_TOKENS, temperature |-> 7, top_p |-> 9,
     top_k |-> 40, timeout |-> ClientTimeout(timeout)]

\* a direct call of generate_answer_streaming(query, search_results, N):
\* the prompt is formatted before the try block
GenCall ==
    /\ pc = "direct"
    /\ gpc = "idle"
    /\ gpc' = IF PromptRaises(gen_input) THEN "raised" ELSE "stream"
    /\ llm_request' = IF PromptRaises(gen_input) THEN llm_request
                      ELSE Some(LLMRequest(None))
    /\ UNCHANGED malformed_at
    /\ UNCHANGED <<query, max_iterations, rest, nframes, buffer, has_yielded,
                   iterations, natural_completion_detected, yielded, received,
                   exit_reason>>
    /\ UNCHANGED ovars
    /\ UNCHANGED rvars
    /\ UNCHANGED svars

----------------------------------------------------------------------------
(* Inputs *)

\* texts an LLM may send; the backend cuts them into chunks at any place
TextOk == <<"o","k">> \o END_TOKEN
TextSpaced == <<" ","a"," ">> \o END_TOKEN
TextShift == <<" ","E","x">> \o Tail(END_TOKEN) \o END_TOKEN
TextPlain == <<"a"," ","b","c">>
TextBlank == <<" ","\n"," "," ">>
TextPhrase == <<"I","n"," ","S","U","M","m","a","r","y","x">>

GenTexts == {TextOk, TextSpaced, TextShift, TextPlain, TextBlank, TextPhrase}

Queries == {<<"q">>}

Entry(i, ty) == [id |-> i, snippet |-> ty]
EmptyResults == [organic |-> <<>>]
NoSession == <<>>
NoOutcome == [kind |-> "none"]

\* the request ids the clients use
Ids == {"r1", "r2"}

\* await asyncio.sleep(60)  "Run every minute"
SWEEP_INTERVAL == 60
\* "Remove streams older than 15 minutes"
SESSION_TTL == 15 * 60

\* the registry variables at startup: the cleanup task has just been created
\* and is in its first asyncio.sleep(60)
InitRegistry ==
    /\ now = 0
    /\ background = [r \in Ids |-> 0]
    /\ nreg = 0
    /\ sweep_pc = "sleeping"
    /\ sleep_left = SWEEP_INTERVAL
    /\ sweep_now = 0
    /\ scan_rest = {}
    /\ scan_used = 0
    /\ keys_to_remove = <<>>
    /\ scan_start = NoSession
    /\ swept = {}
    /\ survived_error = FALSE

\* no service call has been made
InitServices ==
    /\ search_pc = "idle"
    /\ search_timeout = 0
    /\ search_backend = NoOutcome
    /\ search_requests = 0
    /\ search_calls = 0
    /\ search_outcome = NoOutcome
    /\ health_pc = "idle"
    /\ ollama_probe = NoOutcome
    /\ search_probe = NoOutcome
    /\ services = <<>>
    /\ overall_status = "healthy"
    /\ health_response = NoOutcome

\* format_optimized_prompt is not looked at on its own
InitNoPrompt ==
    /\ prompt_args = EmptyResults
    /\ prompt = NoOutcome

\* the model does not look at the HTTP request: it starts from the
\* StreamRequest the handler works with
InitNoHttp ==
    /\ http_request = NoOutcome
    /\ http_status = 0

InitGenLocals ==
    /\ nframes = 0
    /\ buffer = <<>>
    /\ has_yielded = FALSE
    /\ iterations = 0
    /\ natural_completion_detected = FALSE
    /\ yielded = <<>>
    /\ received = <<>>
    /\ exit_reason = "none"
    /\ llm_request = None
    /\ malformed_at = -1

\* a direct call of the generator: no request task
InitGen ==
    /\ query \in Queries
    /\ max_iterations \in 0..MaxIter
    /\ gpc = "idle"
    /\ rest \in GenTexts
    /\ InitGenLocals
    /\ pc = "direct"
    /\ stream_request = [query |-> query]
    /\ active_streams = NoSession
    /\ emitted = <<>>
    /\ search_results = EmptyResults
    /\ idx = 0
    /\ has_content = FALSE
    /\ chunk_count = 0
    /\ taken = 0
    /\ gen_input \in {EmptyResults, [organic |-> <<Entry(1, "null")>>]}
    /\ search_failed = FALSE
    /\ disc_at = -1
    /\ disc_before_gen = FALSE
    /\ InitRegistry
    /\ InitServices
    /\ InitNoHttp
    /\ InitNoPrompt

NextGen ==
    \/ GenCall
    \/ RecvMalformed
    \/ RecvNoText
    \/ RecvText
    \/ RecvDone
    \/ StreamEnd
    \/ RequestError
    \/ HTTPStatusError
    \/ RecvBadShape

SpecGen == InitGen /\ [][NextGen]_vars

----------------------------------------------------------------------------
(* services/search_service.py: search_serper *)

\* an organic list of n entries; the last entry has a snippet of type ty
OrganicList(n, ty) == [i \in 1..n |-> Entry(i, IF i = n THEN ty ELSE "str")]

\* status codes the search backend answers with
StatusCodes == {200, 301, 400, 401, 403, 404, 429, 500, 503, 504}

\* the body of a response: a JSON object (with or without "organic"), a JSON
\* object whose "organic" is null, a JSON array, or a text that is no JSON
JsonBodies ==
    {[shape |-> "object", value |-> [organic |-> OrganicList(n, ty)]] :
        n \in 0..MaxOrganic, ty \in {"str", "null"}}
      \cup {[shape |-> "object", value |-> [searchParameters |-> <<"q">>]]}
      \cup {[shape |-> sh] : sh \in {"organic_null", "array", "invalid"}}

\* what the backend does with one request: it answers, or the transport
\* fails with an httpx.TimeoutException, an httpx.ConnectError or another
\* httpx.RequestError
SearchBackend ==
    {[kind |-> "response", status |-> 200, body |-> b] : b \in JsonBodies}
      \cup {[kind |-> "response", status |-> st, body |-> [shape |-> "invalid"]] :
              st \in StatusCodes \ {200}}
      \cup {[kind |-> k] : k \in {"timeout", "connect_error", "read_error"}}

\* raise HTTPException(status_code, detail)
HTTPException(status_code, detail) ==
    [kind |-> "raise", status_code |-> status_code, detail |-> detail]

Return(value) == [kind |-> "return", value |-> value]

\* str(e) of an httpx.HTTPStatusError: it names the status of the response
StatusErrorText(status) == <<"error '", ToString(status), "' for url">>

\* f"{timeout}" of a float holding a whole number of seconds
FloatText(timeout) == <<ToString(timeout), ".0">>

StatusErrorHandler_Generic(status) ==
    HTTPException(status, <<"Search API error: ">> \o StatusErrorText(status))
\* except httpx.HTTPStatusError
StatusErrorHandler(status) ==
    IF status = 403
    THEN HTTPException(403,
           <<"Authentication failed with Serper.dev API. Please check your API key.">>)
    ELSE HTTPException(status, <<"Search API error: ">> \o StatusErrorText(status))

\* except httpx.RequestError
RequestErrorHandler(kind, timeout) ==
    CASE kind = "timeout" ->
           HTTPException(504, <<"Search request timed out after ">>
                                \o FloatText(timeout) \o <<" seconds">>)
      [] kind = "connect_error" ->
           HTTPException(503, <<"Could not connect to search API">>)
      [] OTHER ->
           HTTPException(500, <<"Request error: ", kind>>)

\* except Exception, for the exception of type ty
UnexpectedHandler(ty) == HTTPException(500, <<"Unexpected error: ", ty>>)

\* response.json() and the logging of the result, which reads
\* len(result.get('organic', [])) and slices the snippet of the first entry
ReadBody(body) ==
    CASE body.shape = "invalid" -> UnexpectedHandler("JSONDecodeError")
      [] body.shape = "array" -> UnexpectedHandler("AttributeError")
      [] body.shape = "organic_null" -> UnexpectedHandler("TypeError")
      [] OTHER ->
           LET result == body.value
               org == Get(result, "organic", <<>>)
           IN  IF Len(org) > 0 /\ org[1].snippet # "str"
               THEN UnexpectedHandler("TypeError")
               ELSE Return(result)

\* search_serper(query, timeout) when the backend does b with its request
\* (response.raise_for_status() raises for every status that is not 2xx)
SearchSerper(timeout, b) ==
    IF b.kind = "response"
    THEN IF b.status \in 200..299
         THEN ReadBody(b.body)
         ELSE StatusErrorHandler(b.status)
    ELSE RequestErrorHandler(b.kind, timeout)

----------------------------------------------------------------------------
(* routes.py: unified_endpoint and generate_unified_stream, one request *)

\* await search_serper(stream_request.query, timeout=30.0)
SEARCH_TIMEOUT == 30
SearchOutcomes == {SearchSerper(SEARCH_TIMEOUT, b) : b \in SearchBackend}

\* what search_serper may return: response.json() as it is
SearchResponses == {o.value : o \in {r \in SearchOutcomes : r.kind = "return"}}

MAX_LLM_ITERATIONS == 150


\* format_sse(event_type, data, metadata) as the client sees it; the terminal
\* marker "data: [DONE]" is the item of type "done".  data is the text of an
\* answer_chunk, entry the organic entry of a search_result, position the
\* number in the metadata (position, result_count, chunk_id, chunk_count)
Envelope(ty, step, data, position) ==
    [type |-> ty, step |-> step, data |-> data, position |-> position,
     entry |-> 0]
ResultEnvelope_ZeroBased(result, position) ==
    [type |-> "search_result", step |-> "search_result", data |-> <<>>,
     position |-> position - 1, entry |-> result.id]
ResultEnvelope(result, position) ==
    [type |-> "search_result", step |-> "search_result", data |-> <<>>,
     position |-> position, entry |-> result.id]
DONE == Envelope("done", "done", <<>>, 0)

GENERATION_FALLBACK ==
    <<"I couldn't generate a specific answer based on the search results. Please try rephrasing your question.">>
GENERATION_APOLOGY ==
    <<"I apologize, but I encountered an error while generating your answer. Please try again.">>

request_id == stream_request.request_id

is_disconnected ==
    request_id \in DOMAIN active_streams /\ active_streams[request_id].disconnected

Min2(a, b) == IF a <= b THEN a ELSE b

\* s[:m] of Python, m of either sign
SliceTo(s, m) == IF m >= 0 THEN Take(s, m)
                 ELSE IF Len(s) + m > 0 THEN Take(s, Len(s) + m) ELSE <<>>

organic == Get(search_results, "organic", <<>>)

\* min(stream_request.max_search_results, len(search_results['organic']))
max_results == Min2(stream_request.max_search_results[1], Len(organic))

\* search_results['organic'][:max_results]
ResultsToStream == SliceTo(organic, max_results)

\* the request task returns without writing anything more
Abandon ==
    /\ pc' = "done"
    /\ UNCHANGED <<emitted, search_results, idx, search_failed>>

Emit(e) == emitted' = Append(emitted, e)

\* "Track the stream" and "Add a background task to clean up this stream
\* when done": the session record and the completion hook of one request
RegisterSession(rid, sid, q) ==
    /\ active_streams' =
         [r \in DOMAIN active_streams \cup {rid} |->
            IF r = rid
            THEN [start_time |-> now, session_id |-> sid, query |-> q,
                  disconnected |-> FALSE]
            ELSE active_streams[r]]
    /\ background' = [background EXCEPT ![rid] = @ + 1]
    /\ nreg' = nreg + 1

RunHook_Keeps(rid) ==
    /\ background[rid] > 0
    /\ background' = [background EXCEPT ![rid] = @ - 1]
    /\ UNCHANGED active_streams
\* the completion hook of a request: active_streams.pop(request_id, None)
RunHook(rid) ==
    /\ background[rid] > 0
    /\ background' = [background EXCEPT ![rid] = @ - 1]
    /\ active_streams' =
         [r \in DOMAIN active_streams \ {rid} |-> active_streams[r]]

UnifiedEndpoint_Unregistered ==
    /\ pc = "request"
    /\ pc' = "start"
    /\ UNCHANGED <<stream_request, active_streams, emitted, search_results, idx,
                   has_content, chunk_count, taken, gen_input, search_failed,
                   disc_at, disc_before_gen>>
    /\ UNCHANGED gvars
    /\ UNCHANGED rvars
    /\ UNCHANGED svars

\* unified_endpoint up to the StreamingResponse: the session is registered
UnifiedEndpoint ==
    /\ pc = "request"
    /\ RegisterSession(request_id, request_id, stream_request.query)
    /\ pc' = "start"
    /\ UNCHANGED <<stream_request, emitted, search_results, idx, has_content,
                   chunk_count, taken, gen_input, search_failed,
                   disc_at, disc_before_gen>>
    /\ UNCHANGED gvars
    /\ UNCHANGED <<now, sweep_pc, sleep_left, sweep_now, scan_rest, scan_used,
                   keys_to_remove, scan_start, swept, survived_error>>
    /\ UNCHANGED svars

\* 1. Initial status message
EmitInit ==
    /\ pc = "start"
    /\ Emit(Envelope("status", "init", <<>>, 0))
    /\ pc' = "after_init"
    /\ UNCHANGED <<stream_request, active_streams, search_results, idx,
                   has_content, chunk_count, taken, gen_input, search_failed,
                   disc_at, disc_before_gen>>
    /\ UNCHANGED gvars
    /\ UNCHANGED rvars
    /\ UNCHANGED svars

\* 2. Search phase: the status, then the task awaits search_serper
EmitSearchStart ==
    /\ pc = "after_init"
    /\ Emit(Envelope("status", "search_start", <<>>, 0))
    /\ pc' = "searching"
    /\ UNCHANGED <<stream_request, active_streams, search_results, idx,
                   has_content, chunk_count, taken, gen_input, search_failed,
                   disc_at, disc_before_gen>>
    /\ UNCHANGED gvars
    /\ UNCHANGED rvars
    /\ UNCHANGED svars

SearchErrorHandler_Fatal ==
    /\ Emit(Envelope("error", "search_error", <<>>, 0))
    /\ search_results' = EmptyResults
    /\ pc' = "after_gen"
    /\ UNCHANGED idx
\* the except branch of the search phase
SearchErrorHandler ==
    /\ Emit(Envelope("error", "search_error", <<>>, 0))
    /\ search_results' = EmptyResults
    /\ pc' = "after_search"
    /\ UNCHANGED idx

\* search_serper raises (HTTPException)
SearchRaises ==
    /\ pc = "searching"
    /\ \E o \in SearchOutcomes : o.kind = "raise"
    /\ SearchErrorHandler
    /\ search_failed' = TRUE
    /\ UNCHANGED <<stream_request, active_streams, has_content, chunk_count,
                   taken, gen_input, disc_at, disc_before_gen>>
    /\ UNCHANGED gvars
    /\ UNCHANGED rvars
    /\ UNCHANGED svars


\* search_serper returns
SearchReturns ==
    /\ pc = "searching"
    /\ \E sr \in SearchResponses :
         IF is_disconnected
         THEN Abandon
         ELSE /\ search_results' = sr
              /\ Emit(Envelope("status", "search_complete", <<>>,
                               Len(Get(sr, "organic", <<>>))))
              /\ pc' = "after_search_complete"
              /\ UNCHANGED <<idx, search_failed>>
    /\ UNCHANGED <<stream_request, active_streams, has_content, chunk_count,
                   taken, gen_input, disc_at, disc_before_gen>>
    /\ UNCHANGED gvars
    /\ UNCHANGED rvars
    /\ UNCHANGED svars

\* the results section still has something to do before line 327
InResults ==
    IF pc = "after_search_complete"
    THEN /\ organic # <<>>
         /\ IF stream_request.max_search_results = None
            THEN TRUE
            ELSE ResultsToStream # <<>>
    ELSE /\ pc = "in_results"
         /\ idx < Len(ResultsToStream)

\* "Stream search results (limited to max_search_results)": the code from one
\* suspension to the next search_result
StreamResult ==
    /\ InResults
    /\ IF pc = "after_search_complete" /\ stream_request.max_search_results = None
       THEN /\ SearchErrorHandler
            /\ UNCHANGED search_failed
       ELSE IF is_disconnected
       THEN Abandon
       ELSE /\ Emit(ResultEnvelope(ResultsToStream[idx + 1], idx + 1))
            /\ idx' = idx + 1
            /\ pc' = "in_results"
            /\ UNCHANGED <<search_results, search_failed>>
    /\ UNCHANGED <<stream_request, active_streams, has_content, chunk_count,
                   taken, gen_input, disc_at, disc_before_gen>>
    /\ UNCHANGED gvars
    /\ UNCHANGED rvars
    /\ UNCHANGED svars

\* 3. LLM generation phase: the disconnect check and the status
BeginGeneration ==
    /\ pc \in {"after_search_complete", "in_results", "after_search"}
    /\ ~InResults
    /\ IF is_disconnected
       THEN Abandon
       ELSE /\ Emit(Envelope("status", "generation_start", <<>>, 0))
            /\ pc' = "after_gen_start"
            /\ UNCHANGED <<search_results, idx, search_failed>>
    /\ UNCHANGED <<stream_request, active_streams, has_content, chunk_count,
                   taken, gen_input, disc_at, disc_before_gen>>
    /\ UNCHANGED gvars
    /\ UNCHANGED rvars
    /\ UNCHANGED svars

StartGeneration_NoError ==
    /\ pc = "after_gen_start"
    /\ gen_input' = search_results
    /\ IF PromptRaises(search_results)
       THEN /\ gpc' = "raised"
            /\ UNCHANGED emitted
            /\ pc' = "gen_error"
       ELSE /\ gpc' = "stream"
            /\ pc' = "generating"
            /\ UNCHANGED emitted
    /\ llm_request' = IF PromptRaises(search_results) THEN llm_request
                      ELSE Some(LLMRequest(stream_request.timeout))
    /\ UNCHANGED <<stream_request, active_streams, search_results, idx,
                   has_content, chunk_count, taken, search_failed,
                   disc_at, disc_before_gen>>
    /\ UNCHANGED malformed_at
    /\ UNCHANGED <<query, max_iterations, rest, nframes, buffer, has_yielded,
                   iterations, natural_completion_detected, yielded, received,
                   exit_reason>>
    /\ UNCHANGED rvars
    /\ UNCHANGED svars
\* async for chunk in generate_answer_streaming(...): the call; an exception
\* of the generator is caught by the except branch of the generation phase
StartGeneration ==
    /\ pc = "after_gen_start"
    /\ gen_input' = search_results
    /\ IF PromptRaises(search_results)
       THEN /\ gpc' = "raised"
            /\ Emit(Envelope("error", "generation_error", <<>>, 0))
            /\ pc' = "gen_error"
       ELSE /\ gpc' = "stream"
            /\ pc' = "generating"
            /\ UNCHANGED emitted
    /\ llm_request' = IF PromptRaises(search_results) THEN llm_request
                      ELSE Some(LLMRequest(stream_request.timeout))
    /\ UNCHANGED <<stream_request, active_streams, search_results, idx,
                   has_content, chunk_count, taken, search_failed,
                   disc_at, disc_before_gen>>
    /\ UNCHANGED malformed_at
    /\ UNCHANGED <<query, max_iterations, rest, nframes, buffer, has_yielded,
                   iterations, natural_completion_detected, yielded, received,
                   exit_reason>>
    /\ UNCHANGED rvars
    /\ UNCHANGED svars

\* the body of the async for, for the next fragment of the generator
HandleChunk ==
    /\ pc = "generating"
    /\ taken < Len(yielded)
    /\ LET chunk == yielded[taken + 1]
       IN  IF is_disconnected
           THEN /\ Abandon
                /\ UNCHANGED <<has_content, chunk_count, taken>>
           ELSE /\ taken' = taken + 1
                /\ IF chunk # <<>>
                   THEN /\ has_content' = TRUE
                        /\ chunk_count' = chunk_count + 1
                        /\ Emit(Envelope("answer_chunk", "generation_chunk",
                                         chunk, chunk_count + 1))
                   ELSE UNCHANGED <<has_content, chunk_count, emitted>>
                /\ UNCHANGED <<pc, search_results, idx, search_failed>>
    /\ UNCHANGED <<stream_request, active_streams, gen_input,
                   disc_at, disc_before_gen>>
    /\ UNCHANGED gvars
    /\ UNCHANGED rvars
    /\ UNCHANGED svars

\* the generator is exhausted: the fallback when nothing was generated, then
\* "Generation completed successfully"
GenerationEnds ==
    /\ \/ pc = "generating" /\ gpc = "done" /\ taken = Len(yielded)
       \/ pc = "after_fallback"
    /\ IF pc = "generating" /\ ~has_content
       THEN /\ Emit(Envelope("answer_chunk", "fallback", GENERATION_FALLBACK, 0))
            /\ pc' = "after_fallback"
       ELSE /\ Emit(Envelope("status", "generation_complete", <<>>, chunk_count))
            /\ pc' = "after_gen"
    /\ UNCHANGED <<stream_request, active_streams, search_results, idx,
                   has_content, chunk_count, taken, gen_input, search_failed,
                   disc_at, disc_before_gen>>
    /\ UNCHANGED gvars
    /\ UNCHANGED rvars
    /\ UNCHANGED svars

GenerationErrorFallback_Silent ==
    /\ pc = "gen_error"
    /\ pc' = "after_gen"
    /\ UNCHANGED <<stream_request, active_streams, emitted, search_results, idx,
                   has_content, chunk_count, taken, gen_input, search_failed,
                   disc_at, disc_before_gen>>
    /\ UNCHANGED gvars
    /\ UNCHANGED rvars
    /\ UNCHANGED svars
\* the except branch of the generation phase, after its error envelope
GenerationErrorFallback ==
    /\ pc = "gen_error"
    /\ Emit(Envelope("answer_chunk", "fallback", GENERATION_APOLOGY, 0))
    /\ pc' = "after_gen"
    /\ UNCHANGED <<stream_request, active_streams, search_results, idx,
                   has_content, chunk_count, taken, gen_input, search_failed,
                   disc_at, disc_before_gen>>
    /\ UNCHANGED gvars
    /\ UNCHANGED rvars
    /\ UNCHANGED svars

\* 4. Complete the stream
EmitComplete ==
    /\ pc = "after_gen"
    /\ Emit(Envelope("status", "complete", <<>>, 0))
    /\ pc' = "after_complete"
    /\ UNCHANGED <<stream_request, active_streams, search_results, idx,
                   has_content, chunk_count, taken, gen_input, search_failed,
                   disc_at, disc_before_gen>>
    /\ UNCHANGED gvars
    /\ UNCHANGED rvars
    /\ UNCHANGED svars

EmitDone_Silent ==
    /\ pc = "after_complete"
    /\ pc' = "done"
    /\ UNCHANGED <<stream_request, active_streams, emitted, search_results, idx,
                   has_content, chunk_count, taken, gen_input, search_failed,
                   disc_at, disc_before_gen>>
    /\ UNCHANGED gvars
    /\ UNCHANGED rvars
    /\ UNCHANGED svars
\* End of stream marker
EmitDone ==
    /\ pc = "after_complete"
    /\ Emit(DONE)
    /\ pc' = "done"
    /\ UNCHANGED <<stream_request, active_streams, search_results, idx,
                   has_content, chunk_count, taken, gen_input, search_failed,
                   disc_at, disc_before_gen>>
    /\ UNCHANGED gvars
    /\ UNCHANGED rvars
    /\ UNCHANGED svars

\* the disconnected flag of the session has been set
was_disconnected == disc_at # -1

\* the request task is suspended somewhere in the stream
InFlight == pc \notin {"direct", "request", "done"}

\* no fragment of the generator has been handled yet
BeforeFirstFragment ==
    \/ pc \in {"start", "after_init", "searching", "after_search_complete",
               "in_results", "after_search", "after_gen_start"}
    \/ pc = "generating" /\ taken = 0

\* the transport layer sets the session's disconnected flag
MarkDisconnected ==
    /\ InFlight
    /\ request_id \in DOMAIN active_streams
    /\ ~active_streams[request_id].disconnected
    /\ active_streams' =
         [active_streams EXCEPT ![request_id].disconnected = TRUE]
    /\ disc_at' = Len(emitted)
    /\ disc_before_gen' = BeforeFirstFragment
    /\ UNCHANGED <<pc, stream_request, emitted, search_results, idx,
                   has_content, chunk_count, taken, gen_input, search_failed>>
    /\ UNCHANGED gvars
    /\ UNCHANGED rvars
    /\ UNCHANGED svars

\* texts of the LLM in the unified stream
StreamTexts == {TextPlain, TextBlank}

MaxSearchResultsValues == {None, Some(-1), Some(1), Some(5)}

\* the generation parameters of a StreamRequest, by default and as a client
\* may set them (temperature and top_p in tenths)
DefaultParams ==
    [temperature |-> 7, max_tokens |-> 2048, top_p |-> 9, top_k |-> 40,
     timeout |-> Some(180)]
CustomParams ==
    [temperature |-> 2, max_tokens |-> 256, top_p |-> 5, top_k |-> 10,
     timeout |-> Some(60)]
NoTimeoutParams == [DefaultParams EXCEPT !.timeout = None]

StreamRequest(q, rid, m, p) ==
    [query |-> q, request_id |-> rid, max_search_results |-> m,
     temperature |-> p.temperature, max_tokens |-> p.max_tokens,
     top_p |-> p.top_p, top_k |-> p.top_k, timeout |-> p.timeout]

Init ==
    /\ query \in Queries
    /\ max_iterations = MAX_LLM_ITERATIONS
    /\ gpc = "idle"
    /\ rest \in StreamTexts
    /\ InitGenLocals
    /\ pc = "request"
    /\ stream_request \in
         {StreamRequest(query, "r1", m, DefaultParams) :
            m \in MaxSearchResultsValues}
    /\ active_streams = NoSession
    /\ emitted = <<>>
    /\ search_results = EmptyResults
    /\ idx = 0
    /\ has_content = FALSE
    /\ chunk_count = 0
    /\ taken = 0
    /\ gen_input = EmptyResults
    /\ search_failed = FALSE
    /\ disc_at = -1
    /\ disc_before_gen = FALSE
    /\ InitRegistry
    /\ InitServices
    /\ InitNoHttp
    /\ InitNoPrompt

\* the response is over (the stream returned) and its background task runs
CompletionHook ==
    /\ pc = "done"
    /\ RunHook(request_id)
    /\ UNCHANGED <<pc, stream_request, emitted, search_results, idx,
                   has_content, chunk_count, taken, gen_input, search_failed,
                   disc_at, disc_before_gen>>
    /\ UNCHANGED gvars
    /\ UNCHANGED <<now, nreg, sweep_pc, sleep_left, sweep_now, scan_rest,
                   scan_used, keys_to_remove, scan_start, swept, survived_error>>
    /\ UNCHANGED svars

\* the steps of the request task and of the backends it awaits, after the
\* handler has returned the StreamingResponse
StreamBody ==
    \/ EmitInit
    \/ EmitSearchStart
    \/ SearchRaises
    \/ SearchReturns
    \/ StreamResult
    \/ BeginGeneration
    \/ StartGeneration
    \/ HandleChunk
    \/ GenerationEnds
    \/ GenerationErrorFallback
    \/ EmitComplete
    \/ EmitDone
    \/ CompletionHook
    \/ RecvMalformed
    \/ RecvNoText
    \/ RecvText
    \/ RecvDone
    \/ StreamEnd
    \/ RequestError
    \/ HTTPStatusError
    \/ RecvBadShape

\* the handler, then the stream it returned
StreamStep == UnifiedEndpoint \/ StreamBody

Next == StreamStep \/ MarkDisconnected

Spec == Init /\ [][Next]_vars

\* the outer handler of generate_unified_stream: an exception that no stage
\* handler catches (raised by a statement outside the two inner try blocks, or
\* inside one of their except branches) is answered by a best-effort error
\* envelope and the terminal marker
UnhandledFailure ==
    /\ pc \in {"start", "after_init", "after_search", "gen_error", "after_gen",
               "after_complete"}
    /\ emitted' = emitted \o <<Envelope("error", "fatal_error", <<>>, 0), DONE>>
    /\ pc' = "done"
    /\ UNCHANGED <<stream_request, active_streams, search_results, idx,
                   has_content, chunk_count, taken, gen_input, search_failed,
                   disc_at, disc_before_gen>>
    /\ UNCHANGED gvars
    /\ UNCHANGED rvars
    /\ UNCHANGED svars

NextFault == Next \/ UnhandledFailure

SpecFault == Init /\ [][NextFault]_vars

\* the request task is scheduled again after every suspension, and every call
\* to a backend returns or fails within its timeout
FairSpecFault == SpecFault /\ WF_vars(StreamStep)

\* a direct consumer asks for fragments until the generator is exhausted, and
\* the streaming call returns or fails within its timeout
FairSpecGen == SpecGen /\ WF_vars(NextGen)


(***************************************************************************)
(* Properties of the unified stream                                        *)
(***************************************************************************)

\* the items of `emitted` of one type
OfType(ty) == SelectSeq(emitted, LAMBDA e : e.type = ty)
OfStep(st) == SelectSeq(emitted, LAMBDA e : e.step = st)

NoErrorEnvelope == OfType("error") = <<>>

\* the k-th search_result carries position k, and the k-th generated
\* answer_chunk carries the k-th fragment the generator yielded
ResultsInPositionOrder ==
    \A k \in 1..Len(OfType("search_result")) :
        OfType("search_result")[k].position = k
ChunksInGeneratorOrder ==
    /\ Len(OfStep("generation_chunk")) <= Len(yielded)
    /\ \A k \in 1..Len(OfStep("generation_chunk")) :
          /\ OfStep("generation_chunk")[k].data = yielded[k]
          /\ OfStep("generation_chunk")[k].position = k

\* the order as the specification lists it: init, search_start,
\* search_complete, the results, generation_start, the answer chunks, the
\* final status, the terminal marker
ListedFollows(a, b) ==
    \/ a.step = "init" /\ b.step = "search_start"
    \/ a.step = "search_start" /\ b.step = "search_complete"
    \/ a.step = "search_complete" /\ b.step \in {"search_result", "generation_start"}
    \/ a.step = "search_result" /\ b.step \in {"search_result", "generation_start"}
    \/ a.step = "generation_start" /\ b.type = "answer_chunk"
    \/ a.type = "answer_chunk" /\ (b.type = "answer_chunk" \/ b.step = "complete")
    \/ a.step = "complete" /\ b.type = "done"

\* the order of the yield statements of generate_unified_stream
ProgramFollows(a, b) ==
    \/ a.step = "init" /\ b.step = "search_start"
    \/ a.step = "search_start" /\ b.step \in {"search_complete", "search_error"}
    \/ a.step = "search_complete"
          /\ b.step \in {"search_result", "search_error", "generation_start"}
    \/ a.step = "search_result" /\ b.step \in {"search_result", "generation_start"}
    \/ a.step = "search_error" /\ b.step = "generation_start"
    \/ a.step = "generation_start"
          /\ b.step \in {"generation_chunk", "fallback", "generation_error"}
    \/ a.step = "generation_chunk"
          /\ b.step \in {"generation_chunk", "generation_complete"}
    \/ a.step = "generation_error" /\ b.step = "fallback"
    \/ a.step = "fallback" /\ b.step \in {"generation_complete", "complete"}
    \/ a.step = "generation_complete" /\ b.step = "complete"
    \/ a.step = "complete" /\ b.type = "done"

StreamEnded == pc = "done"

EndsWithDone == emitted # <<>> /\ emitted[Len(emitted)] = DONE

\* C2: every stream ends; the terminal marker is never written twice and
\* nothing follows it; a stream whose session was never marked disconnected
\* ends with the terminal marker, whether the stages succeeded, the search
\* failed, the generator failed or a failure escaped the stage handlers.
C2_TerminalMarker ==
    /\ <>StreamEnded
    /\ [](Len(OfType("done")) <= 1)
    /\ [](OfType("done") # <<>> => EndsWithDone)
    /\ [](StreamEnded /\ ~was_disconnected => EndsWithDone)

\* a failure escaped the stage handlers of a connected session, and the
\* stream ended with the best-effort error envelope and the terminal marker
C2_Witness ==
    /\ StreamEnded
    /\ ~was_disconnected
    /\ Len(OfStep("fatal_error")) = 1
    /\ Len(OfType("done")) = 1
    /\ EndsWithDone

\* C3: once the session is marked disconnected, no step of the stream writes
\* another envelope.
C3_SilentAfterDisconnect == [][was_disconnected => emitted' = emitted]_vars

\* C4: a session marked disconnected before the first fragment of the
\* generator was handled gets no answer_chunk and no terminal marker.
C4_NoAnswerAfterEarlyDisconnect ==
    disc_before_gen => OfType("answer_chunk") = <<>> /\ OfType("done") = <<>>

\* C5: when the search call raises, exactly one error envelope is written for
\* the search stage, no search_result is written, the generator is started
\* over the empty result list, and a stream that is not disconnected goes on
\* through the generation phase to the final status and the terminal marker.
C5_SearchFailureContinues ==
    search_failed =>
        /\ Len(OfType("error")) = 1
        /\ OfType("error")[1].step = "search_error"
        /\ OfType("search_result") = <<>>
        /\ search_results = EmptyResults
        /\ gpc # "idle" => gen_input = EmptyResults
        /\ StreamEnded /\ ~was_disconnected =>
              /\ Len(OfStep("generation_start")) = 1
              /\ gpc = "done"
              /\ OfType("answer_chunk") # <<>>
              /\ Len(emitted) >= 2
              /\ emitted[Len(emitted) - 1] = Envelope("status", "complete", <<>>, 0)
              /\ EndsWithDone

\* a connected stream whose search raised has run to its end
C5_Witness ==
    /\ search_failed
    /\ StreamEnded
    /\ ~was_disconnected
    /\ OfType("answer_chunk") # <<>>

(***************************************************************************)
(* Properties of generate_answer_streaming                                 *)
(***************************************************************************)

GeneratorEnded == gpc = "done"

\* the text the backend sent, and the text the consumer got
ReceivedText == Concat(received)
YieldedText == Concat(yielded)

IsFallback(f) == f = fallback_answer(query) \/ f = EMERGENCY_FALLBACK
IsSynthesized(f) == IsFallback(f) \/ f = CLOSING
Fallbacks == SelectSeq(yielded, IsFallback)
ContentFragments == SelectSeq(yielded, LAMBDA f : ~IsSynthesized(f))

\* C6: for search results the prompt can be built from, the generator ends
\* whatever the backend does (done, sentinel, end of stream, malformed frames,
\* frames of another shape, timeout, connection error, non-success status,
\* iteration cap), and when it has ended it has yielded at least one fragment.
C6_AlwaysYields ==
    /\ (gpc = "stream") ~> GeneratorEnded
    /\ [](GeneratorEnded => Len(yielded) >= 1)

\* the backend ended before it sent any text, and the consumer got a fragment
C6_Witness ==
    /\ GeneratorEnded
    /\ received = <<>>
    /\ Len(yielded) >= 1

\* C7: the text of the yielded fragments never contains the end-of-response
\* sentinel.
C7_SentinelNeverYielded == ~Contains(YieldedText, END_TOKEN)

\* C8: when the backend text is T followed by the sentinel, T without the
\* sentinel, however it is cut into frames, the yielded fragments concatenate
\* to T and natural completion is recorded.
C8_SentinelSplit ==
    LET pos == Find(ReceivedText, END_TOKEN)
    IN  GeneratorEnded /\ exit_reason = "sentinel"
            /\ pos + Len(END_TOKEN) = Len(ReceivedText)
        => /\ YieldedText = Take(ReceivedText, pos)
           /\ natural_completion_detected

\* the loop was left by the iteration cap N >= 1 with no completion phrase seen
CapReached ==
    /\ GeneratorEnded
    /\ exit_reason = "cap"
    /\ max_iterations >= 1
    /\ ~natural_completion_detected

\* C9 (as stated): at the cap the generator has yielded exactly the first N
\* non-empty fragments and then exactly one closing sentence, nothing else.
C9_CapExact ==
    CapReached =>
        /\ Len(received) = max_iterations
        /\ yielded = received \o <<CLOSING>>

\* C9 (amended): at the cap the generator has yielded exactly the first N
\* non-empty fragments, then exactly one closing sentence, and after it one
\* fallback string exactly when the N fragments hold nothing but whitespace.
C9_CapClosing ==
    CapReached =>
        /\ Len(received) = max_iterations
        /\ yielded = received \o <<CLOSING>>
                        \o (IF Strip(ReceivedText) = <<>>
                            THEN <<fallback_answer(query)>> ELSE <<>>)

\* the cap of two fragments stopped a backend that had more text to send
C9_Witness ==
    /\ CapReached
    /\ max_iterations = 2
    /\ rest # <<>>
    /\ Strip(ReceivedText) # <<>>

\* C10: when the generator has ended it has yielded exactly one fallback
\* string if no fragment of backend text was yielded or the accumulated buffer
\* is empty or whitespace-only, and none if some non-blank text was yielded.
C10_OneFallback ==
    GeneratorEnded =>
        /\ ContentFragments = <<>> \/ Strip(buffer) = <<>> => Len(Fallbacks) = 1
        /\ Strip(Concat(ContentFragments)) # <<>> /\ Strip(buffer) # <<>>
              => Len(Fallbacks) = 0

(***************************************************************************)
(* End to end: one organic result, the LLM streams a text and the sentinel *)
(***************************************************************************)

\* the request of the end-to-end case: default max_search_results, the LLM
\* has the text "ok" followed by the sentinel to send
InitEndToEnd ==
    /\ query \in Queries
    /\ max_iterations = MAX_LLM_ITERATIONS
    /\ gpc = "idle"
    /\ rest = TextOk
    /\ InitGenLocals
    /\ pc = "request"
    /\ stream_request = StreamRequest(query, "r1", Some(5), DefaultParams)
    /\ active_streams = NoSession
    /\ emitted = <<>>
    /\ search_results = EmptyResults
    /\ idx = 0
    /\ has_content = FALSE
    /\ chunk_count = 0
    /\ taken = 0
    /\ gen_input = EmptyResults
    /\ search_failed = FALSE
    /\ disc_at = -1
    /\ disc_before_gen = FALSE
    /\ InitRegistry
    /\ InitServices
    /\ InitNoHttp
    /\ InitNoPrompt

\* the client stays connected
SpecEndToEnd == InitEndToEnd /\ [][StreamStep]_vars

\* the search returned one well-formed organic result and the LLM backend
\* delivered its whole text, sentinel included, in text frames only
EndToEndCase ==
    /\ pc = "done"
    /\ ~search_failed
    /\ search_results = [organic |-> OrganicList(1, "str")]
    /\ exit_reason = "sentinel"
    /\ nframes = Len(received)
    /\ Concat(received) = TextOk

\* C11: with one organic result and the LLM streaming the text followed by
\* the sentinel, the items written are exactly status(init),
\* status(search_start), status(search_complete), one search_result,
\* status(generation_start), one answer_chunk carrying the text,
\* status(complete) and the terminal marker.
C11_EndToEndSequence ==
    EndToEndCase =>
        emitted = << Envelope("status", "init", <<>>, 0),
                     Envelope("status", "search_start", <<>>, 0),
                     Envelope("status", "search_complete", <<>>, 1),
                     ResultEnvelope(Entry(1, "str"), 1),
                     Envelope("status", "generation_start", <<>>, 0),
                     Envelope("answer_chunk", "generation_chunk",
                              Take(TextOk, 2), 1),
                     Envelope("status", "complete", <<>>, 0),
                     DONE >>

(***************************************************************************)
(* The session registry: requests register sessions on the event loop,     *)
(* completion hooks pop them from worker threads (a synchronous background *)
(* task), cleanup_active_streams sweeps on the event loop.  Time advances  *)
(* in steps of one sweep interval and is followed up to ClockCap, where    *)
(* every session of the run is older than SESSION_TTL.                     *)
(***************************************************************************)

MaxRequests == 3
MaxRegisterTicks == 1

MaxRegisterTime == MaxRegisterTicks * SWEEP_INTERVAL
ClockCap == MaxRegisterTime + SESSION_TTL + 2 * SWEEP_INTERVAL

frozen == <<gvars, pc, stream_request, emitted, search_results, idx,
            has_content, chunk_count, taken, gen_input, search_failed,
            disc_at, disc_before_gen, svars>>

InitSweep ==
    /\ query \in Queries
    /\ max_iterations = MAX_LLM_ITERATIONS
    /\ gpc = "idle"
    /\ rest = <<>>
    /\ InitGenLocals
    /\ pc = "registry"
    /\ stream_request = [query |-> query]
    /\ active_streams = NoSession
    /\ emitted = <<>>
    /\ search_results = EmptyResults
    /\ idx = 0
    /\ has_content = FALSE
    /\ chunk_count = 0
    /\ taken = 0
    /\ gen_input = EmptyResults
    /\ search_failed = FALSE
    /\ disc_at = -1
    /\ disc_before_gen = FALSE
    /\ InitRegistry
    /\ InitServices
    /\ InitNoHttp
    /\ InitNoPrompt

\* one sweep interval passes; a cycle of the sweep, which awaits nothing,
\* is over long before
Tick ==
    /\ pc = "registry"
    /\ sweep_pc = "sleeping"
    /\ now' = Min2(now + SWEEP_INTERVAL, ClockCap)
    /\ sleep_left' = IF sleep_left > SWEEP_INTERVAL
                     THEN sleep_left - SWEEP_INTERVAL ELSE 0
    /\ <<now', sleep_left'>> # <<now, sleep_left>>
    /\ UNCHANGED <<active_streams, background, nreg, sweep_pc, sweep_now,
                   scan_rest, scan_used, keys_to_remove, scan_start, swept,
                   survived_error>>
    /\ UNCHANGED frozen

\* a request arrives; the event loop runs it while the cleanup task sleeps
Request ==
    /\ pc = "registry"
    /\ sweep_pc = "sleeping"
    /\ nreg < MaxRequests
    /\ now <= MaxRegisterTime
    /\ \E rid \in Ids : RegisterSession(rid, rid, query)
    /\ UNCHANGED <<now, sweep_pc, sleep_left, sweep_now, scan_rest, scan_used,
                   keys_to_remove, scan_start, swept, survived_error>>
    /\ UNCHANGED frozen

\* the response of a request is over and a worker thread runs its hook
HookRuns ==
    /\ pc = "registry"
    /\ \E rid \in Ids : RunHook(rid)
    /\ UNCHANGED <<now, nreg, sweep_pc, sleep_left, sweep_now, scan_rest,
                   scan_used, keys_to_remove, scan_start, swept, survived_error>>
    /\ UNCHANGED frozen

\* asyncio.sleep(60) returns: now, keys_to_remove and the items() iterator
SweepWake ==
    /\ pc = "registry"
    /\ sweep_pc = "sleeping"
    /\ sleep_left = 0
    /\ sweep_now' = now
    /\ keys_to_remove' = <<>>
    /\ scan_rest' = DOMAIN active_streams
    /\ scan_used' = Cardinality(DOMAIN active_streams)
    /\ scan_start' = active_streams
    /\ swept' = {}
    /\ sweep_pc' = "scanning"
    /\ UNCHANGED <<now, active_streams, background, nreg, sleep_left,
                   survived_error>>
    /\ UNCHANGED frozen

\* one turn of `for request_id, stream_data in active_streams.items()`; the
\* iterator raises RuntimeError when the dict has changed size
ScanStep ==
    /\ pc = "registry"
    /\ sweep_pc = "scanning"
    /\ IF Cardinality(DOMAIN active_streams) # scan_used
       THEN /\ sweep_pc' = "error"
            /\ UNCHANGED <<scan_rest, keys_to_remove>>
       ELSE IF scan_rest = {}
       THEN /\ sweep_pc' = "deleting"
            /\ UNCHANGED <<scan_rest, keys_to_remove>>
       ELSE \E rid \in scan_rest :
              /\ scan_rest' = scan_rest \ {rid}
              /\ keys_to_remove' =
                   IF sweep_now - active_streams[rid].start_time > SESSION_TTL
                   THEN Append(keys_to_remove, rid) ELSE keys_to_remove
              /\ UNCHANGED sweep_pc
    /\ UNCHANGED <<now, active_streams, background, nreg, sleep_left,
                   sweep_now, scan_used, scan_start, swept, survived_error>>
    /\ UNCHANGED frozen

\* one turn of `for key in keys_to_remove: del active_streams[key]` (the
\* keys still to delete are what is left of keys_to_remove); KeyError when
\* the key is gone; after the last turn the cycle is logged
DeleteStep ==
    /\ pc = "registry"
    /\ sweep_pc = "deleting"
    /\ IF keys_to_remove = <<>>
       THEN /\ sweep_pc' = "end"
            /\ UNCHANGED <<active_streams, keys_to_remove, swept>>
       ELSE IF Head(keys_to_remove) \notin DOMAIN active_streams
       THEN /\ sweep_pc' = "error"
            /\ UNCHANGED <<active_streams, keys_to_remove, swept>>
       ELSE /\ active_streams' =
                 [r \in DOMAIN active_streams \ {Head(keys_to_remove)} |->
                    active_streams[r]]
            /\ swept' = swept \cup {Head(keys_to_remove)}
            /\ keys_to_remove' = Tail(keys_to_remove)
            /\ UNCHANGED sweep_pc
    /\ UNCHANGED <<now, background, nreg, sleep_left, sweep_now, scan_rest,
                   scan_used, scan_start, survived_error>>
    /\ UNCHANGED frozen

SweepSleep_Dies ==
    /\ pc = "registry"
    /\ sweep_pc \in {"end", "error"}
    /\ sweep_pc' = IF sweep_pc = "error" THEN "dead" ELSE "sleeping"
    /\ sleep_left' = SWEEP_INTERVAL
    /\ survived_error' = (survived_error \/ sweep_pc = "error")
    /\ scan_start' = NoSession
    /\ swept' = {}
    /\ sweep_now' = 0
    /\ scan_rest' = {}
    /\ scan_used' = 0
    /\ keys_to_remove' = <<>>
    /\ UNCHANGED <<now, active_streams, background, nreg>>
    /\ UNCHANGED frozen
\* the cycle is over, by the log line or by the except branch, and the
\* while loop goes back to asyncio.sleep(60); the locals of the cycle are
\* dead until the next cycle assigns them again
SweepSleep ==
    /\ pc = "registry"
    /\ sweep_pc \in {"end", "error"}
    /\ sweep_pc' = "sleeping"
    /\ sleep_left' = SWEEP_INTERVAL
    /\ survived_error' = (survived_error \/ sweep_pc = "error")
    /\ scan_start' = NoSession
    /\ swept' = {}
    /\ sweep_now' = 0
    /\ scan_rest' = {}
    /\ scan_used' = 0
    /\ keys_to_remove' = <<>>
    /\ UNCHANGED <<now, active_streams, background, nreg>>
    /\ UNCHANGED frozen

SweepStep == SweepWake \/ ScanStep \/ DeleteStep \/ SweepSleep

NextSweep == Tick \/ Request \/ HookRuns \/ SweepStep

SpecSweep == InitSweep /\ [][NextSweep]_vars

\* time passes and the event loop runs the cleanup task; nothing is assumed
\* of the requests and of their hooks
FairSpecSweep == SpecSweep /\ WF_vars(Tick) /\ WF_vars(SweepStep)

\* a cycle of the sweep is over
CycleOver == sweep_pc \in {"end", "error"}

\* the session the cycle found under rid was older than 15 minutes
Expired(rid) == sweep_now - scan_start[rid].start_time > SESSION_TTL

\* what a cycle owes the sessions it found: the expired ones are gone, the
\* others were not deleted by the cycle and, while registered, are unchanged
SweepOutcome ==
    \A rid \in DOMAIN scan_start :
        IF Expired(rid)
        THEN rid \notin DOMAIN active_streams
        ELSE /\ rid \notin swept
             /\ rid \in DOMAIN active_streams
                   => active_streams[rid] = scan_start[rid]

\* C12: after one cycle of the sweep every session whose start time is more
\* than 15 minutes in the past is absent from the registry, and every session
\* at most 15 minutes old is kept unchanged by the cycle.
C12_SweepCycle == CycleOver => SweepOutcome

\* C14: every registered session is eventually absent from the registry, with
\* no assumption that its completion hook ever runs, and a cycle that ended
\* in an error is followed by another scan.
C14_SweeperEvicts ==
    /\ \A rid \in Ids :
          (rid \in DOMAIN active_streams) ~> (rid \notin DOMAIN active_streams)
    /\ (sweep_pc = "error") ~> (sweep_pc = "scanning")

\* after a cycle that ended in an error, a later cycle has deleted a session
\* whose completion hook has not run
C14_Witness ==
    /\ survived_error
    /\ sweep_pc = "end"
    /\ \E rid \in swept : background[rid] > 0

\* C20: a cycle of the sweep that runs while requests register sessions and
\* worker threads run completion hooks never ends in an error, leaves no
\* session older than 15 minutes that it found, and deletes no session at
\* most 15 minutes old.
C20_SweepUnderConcurrency ==
    /\ sweep_pc # "error"
    /\ sweep_pc = "end" => SweepOutcome

Registered == request_id \in DOMAIN active_streams

\* C13: when the stream of a request is over, having written the terminal
\* marker after success or failure or having returned silent after a
\* disconnect, the completion hook eventually removes its session.
C13_HookDeregisters == StreamEnded ~> ~Registered

\* the stream of a flagged session returned without the terminal marker and
\* its hook has removed the session
C13_Witness ==
    /\ StreamEnded
    /\ was_disconnected
    /\ OfType("done") = <<>>
    /\ nreg = 1
    /\ ~Registered

(***************************************************************************)
(* Failures of the generation phase                                        *)
(***************************************************************************)

\* an exception leaves the generator while the request task awaits its next
\* fragment.  The failures of the backend modelled above are all answered
\* inside the generator; this step stands for any other exception, and the
\* except branch of the generation phase catches it
GeneratorFault ==
    /\ pc = "generating"
    /\ gpc = "stream"
    /\ taken = Len(yielded)
    /\ gpc' = "raised"
    /\ Emit(Envelope("error", "generation_error", <<>>, 0))
    /\ pc' = "gen_error"
    /\ UNCHANGED <<stream_request, active_streams, search_results, idx,
                   has_content, chunk_count, taken, gen_input, search_failed,
                   disc_at, disc_before_gen>>
    /\ UNCHANGED <<llm_request, malformed_at>>
    /\ UNCHANGED <<query, max_iterations, rest, nframes, buffer, has_yielded,
                   iterations, natural_completion_detected, yielded, received,
                   exit_reason>>
    /\ UNCHANGED rvars
    /\ UNCHANGED svars

NextGenFault == Next \/ GeneratorFault

SpecGenFault == Init /\ [][NextGenFault]_vars

GeneratorRaised == gpc = "raised"

\* C15: when the generator has raised to the request task, before any
\* fragment or after some, the stream ends with exactly one
\* error(generation_error) envelope, then exactly one fallback answer_chunk,
\* then status(complete), then the terminal marker.
C15_GenerationFailure ==
    GeneratorRaised =>
        /\ Len(OfStep("generation_error")) = 1
        /\ Len(OfStep("generation_complete")) = 0
        /\ StreamEnded =>
              /\ Len(emitted) >= 4
              /\ emitted[Len(emitted) - 3] =
                    Envelope("error", "generation_error", <<>>, 0)
              /\ emitted[Len(emitted) - 2] =
                    Envelope("answer_chunk", "fallback", GENERATION_APOLOGY, 0)
              /\ emitted[Len(emitted) - 1] = Envelope("status", "complete", <<>>, 0)
              /\ EndsWithDone
              /\ Len(OfStep("fallback")) = 1

\* the generator raised after two fragments had been forwarded and the
\* stream has ended
C15_Witness ==
    /\ GeneratorRaised
    /\ StreamEnded
    /\ Len(OfStep("generation_chunk")) = 2
    /\ EndsWithDone

TransportReasons == {"request_error", "http_error"}

\* the step in which the streaming call fails with a transport error
TransportFailure ==
    exit_reason \notin TransportReasons /\ exit_reason' \in TransportReasons

\* C17: a transport failure (HTTP error status or connection error) of the
\* streaming call is not raised to the consumer: the generator ends normally,
\* the fragments it had yielded are kept unchanged, only fallback strings are
\* added, and one is added exactly when no fragment had been yielded or the
\* buffer is blank.
C17_TransportFailureFallback ==
    [][TransportFailure =>
         /\ gpc' = "done"
         /\ Len(yielded') >= Len(yielded)
         /\ SubSeq(yielded', 1, Len(yielded)) = yielded
         /\ \A i \in (Len(yielded) + 1)..Len(yielded') : IsFallback(yielded'[i])
         /\ (Len(yielded') > Len(yielded))
               <=> (yielded = <<>> \/ Strip(buffer) = <<>>)]_vars

\* the connection failed after some visible text had been yielded, and the
\* generator ended with exactly the fragments it had forwarded
C17_Witness ==
    /\ exit_reason = "request_error"
    /\ gpc = "done"
    /\ received # <<>>
    /\ Strip(ReceivedText) # <<>>
    /\ yielded = received

\* ---------------------------------------------------------------------
\* Malformed frames
\* ---------------------------------------------------------------------

\* the step in which a frame that does not parse is read
MalformedSkipped == malformed_at' # malformed_at

\* C18: a frame that cannot be parsed is skipped.  The step that reads it
\* yields nothing, leaves the buffer, the iteration count and the completion
\* flag as they were and does not end the stream; and while the stream goes
\* on after it, the generator's state is the one the well-formed frames alone
\* produce.
C18_MalformedFrameSkipped ==
    /\ [][MalformedSkipped =>
            /\ gpc' = gpc
            /\ UNCHANGED <<yielded, buffer, iterations, has_yielded,
                           natural_completion_detected, exit_reason>>]_vars
    /\ [](malformed_at >= 0 /\ gpc = "stream" =>
            /\ yielded = received
            /\ buffer = ReceivedText
            /\ iterations = Len(received)
            /\ has_yielded = (received # <<>>)
            /\ natural_completion_detected = IndicatorFound(ReceivedText))

\* a malformed frame was skipped after one fragment, and a well-formed frame
\* read after it was yielded while the stream goes on
C18_Witness ==
    /\ malformed_at = 1
    /\ Len(received) = 2
    /\ yielded = received
    /\ gpc = "stream"

\* ---------------------------------------------------------------------
\* Generation parameters of the unified request
\* ---------------------------------------------------------------------

ParamsValues == {DefaultParams, CustomParams, NoTimeoutParams}

\* a unified request with default or client-chosen generation parameters;
\* the LLM backend has the text "ok" followed by the sentinel to send
InitParams ==
    /\ query \in Queries
    /\ max_iterations = MAX_LLM_ITERATIONS
    /\ gpc = "idle"
    /\ rest = TextOk
    /\ InitGenLocals
    /\ pc = "request"
    /\ stream_request \in
         {StreamRequest(query, "r1", Some(5), p) : p \in ParamsValues}
    /\ active_streams = NoSession
    /\ emitted = <<>>
    /\ search_results = EmptyResults
    /\ idx = 0
    /\ has_content = FALSE
    /\ chunk_count = 0
    /\ taken = 0
    /\ gen_input = EmptyResults
    /\ search_failed = FALSE
    /\ disc_at = -1
    /\ disc_before_gen = FALSE
    /\ InitRegistry
    /\ InitServices
    /\ InitNoHttp
    /\ InitNoPrompt

SpecParams == InitParams /\ [][StreamStep]_vars

\* the request to the LLM backend has been sent for the unified request
GenerationRequested == pc # "direct" /\ llm_request # None

\* C19: the generation request sent to the LLM backend for a unified request
\* carries that request's temperature, top_p, top_k and max_tokens (as
\* num_predict), and the call uses the request's timeout.
C19_RequestParameters ==
    GenerationRequested =>
        /\ llm_request[1].temperature = stream_request.temperature
        /\ llm_request[1].top_p = stream_request.top_p
        /\ llm_request[1].top_k = stream_request.top_k
        /\ llm_request[1].num_predict = stream_request.max_tokens
        /\ stream_request.timeout # None
              => llm_request[1].timeout = stream_request.timeout[1]

(***************************************************************************)
(* search_serper called on its own                                         *)
(***************************************************************************)

\* calls of search_serper made one after the other
MaxCalls == 2

\* the timeout argument: its default and the one the unified stream passes
SearchTimeouts == {60, SEARCH_TIMEOUT}

\* a caller of the services: no unified request, no direct generator call
InitService ==
    /\ query \in Queries
    /\ max_iterations = MAX_LLM_ITERATIONS
    /\ gpc = "idle"
    /\ rest = <<>>
    /\ InitGenLocals
    /\ pc = "service"
    /\ stream_request = [query |-> query]
    /\ active_streams = NoSession
    /\ emitted = <<>>
    /\ search_results = EmptyResults
    /\ idx = 0
    /\ has_content = FALSE
    /\ chunk_count = 0
    /\ taken = 0
    /\ gen_input = EmptyResults
    /\ search_failed = FALSE
    /\ disc_at = -1
    /\ disc_before_gen = FALSE
    /\ InitRegistry
    /\ InitServices
    /\ InitNoHttp
    /\ InitNoPrompt

\* search_serper is called and sends its request: await client.post(...)
SearchCall ==
    /\ pc = "service"
    /\ search_pc # "awaiting"
    /\ search_calls < MaxCalls
    /\ \E t \in SearchTimeouts, b \in SearchBackend :
         /\ search_timeout' = t
         /\ search_backend' = b
    /\ search_calls' = search_calls + 1
    /\ search_requests' = search_requests + 1
    /\ search_pc' = "awaiting"
    /\ search_outcome' = NoOutcome
    /\ UNCHANGED hvars
    /\ UNCHANGED evars
    /\ UNCHANGED pvars
    /\ UNCHANGED <<gvars, ovars, rvars>>

\* the backend has answered or the transport has failed: search_serper
\* returns the result or raises its HTTPException
SearchEnd ==
    /\ pc = "service"
    /\ search_pc = "awaiting"
    /\ search_outcome' = SearchSerper(search_timeout, search_backend)
    /\ search_pc' = IF search_outcome'.kind = "return" THEN "returned" ELSE "raised"
    /\ UNCHANGED <<search_timeout, search_backend, search_requests, search_calls>>
    /\ UNCHANGED hvars
    /\ UNCHANGED evars
    /\ UNCHANGED pvars
    /\ UNCHANGED <<gvars, ovars, rvars>>

NextSearch ==
    \/ SearchCall
    \/ SearchEnd

SpecSearch == InitService /\ [][NextSearch]_vars

SearchEnded == search_pc \in {"returned", "raised"}

AUTH_DETAIL ==
    <<"Authentication failed with Serper.dev API. Please check your API key.">>

Range(f) == {f[i] : i \in DOMAIN f}

\* the backend answered with a status that is not a success
ErrorStatus == search_backend.kind = "response" /\ search_backend.status \notin 200..299

\* C21: search_serper sends one request per call, and when the call has
\* ended: a 403 of the backend has raised the authentication error, a
\* timeout the timeout error (504), a connection failure the unavailable
\* error (503); every other status has raised the generic error with the
\* upstream status, every other transport failure and every failure to read
\* the body a generic error with the message; and a value was returned only
\* for a successful response, as the body it carried.
C21_SearchErrorMapping ==
    /\ search_requests = search_calls
    /\ SearchEnded =>
         LET b == search_backend
             o == search_outcome
         IN  /\ ErrorStatus /\ b.status = 403 =>
                   o = HTTPException(403, AUTH_DETAIL)
             /\ b.kind = "timeout" =>
                   /\ o.kind = "raise" /\ o.status_code = 504
                   /\ o.detail[1] = "Search request timed out after "
             /\ b.kind = "connect_error" =>
                   o = HTTPException(503, <<"Could not connect to search API">>)
             /\ ErrorStatus /\ b.status # 403 =>
                   /\ o.kind = "raise" /\ o.status_code = b.status
                   /\ o.detail[1] = "Search API error: "
                   /\ ToString(b.status) \in Range(o.detail)
             /\ b.kind = "read_error" =>
                   /\ o.kind = "raise" /\ o.status_code = 500
                   /\ o.detail = <<"Request error: ", b.kind>>
             /\ b.kind = "response" /\ ~ErrorStatus /\ b.body.shape # "object" =>
                   /\ o.kind = "raise" /\ o.status_code = 500
                   /\ o.detail[1] = "Unexpected error: "
             /\ o.kind = "return" =>
                   /\ b.kind = "response" /\ ~ErrorStatus
                   /\ b.body.shape = "object"
                   /\ o.value = b.body.value

\* a second call has ended with the authentication error, after a first
\* call that also sent one request
C21_Witness ==
    /\ search_calls = 2
    /\ search_requests = 2
    /\ search_pc = "raised"
    /\ search_backend.kind = "response"
    /\ search_backend.status = 403
    /\ search_outcome.status_code = 403

\* the unified stream has called the generator
GeneratorCalled == pc \notin {"direct", "service", "registry"} /\ gpc # "idle"

\* C22: a result returned by search_serper has the field 'organic', and so
\* has the search result the unified stream hands to the generator.
C22_OrganicPresent ==
    /\ search_pc = "returned" => "organic" \in DOMAIN search_outcome.value
    /\ GeneratorCalled => "organic" \in DOMAIN gen_input

(***************************************************************************)
(* routes.py: health_check                                                 *)
(***************************************************************************)

\* settings.OLLAMA_MODEL
OLLAMA_MODEL == "llama3:8b"

\* entries of the "models" list of /api/tags: an object with a name, or a
\* value that is no object
ModelEntries ==
    {[kind |-> "model", name |-> n] : n \in {OLLAMA_MODEL, "other"}}
      \cup {[kind |-> "string"]}

\* "models" lists of the LLM backend
MaxModels == 2
ModelLists == UNION {[1..n -> ModelEntries] : n \in 0..MaxModels}

\* what the LLM backend does with GET /api/tags
OllamaBackend ==
    {[kind |-> "response", status |-> 200,
      body |-> [shape |-> "object", value |-> [models |-> ml]]] : ml \in ModelLists}
      \cup {[kind |-> "response", status |-> 200,
              body |-> [shape |-> "object", value |-> [version |-> <<"1">>]]]}
      \cup {[kind |-> "response", status |-> 200, body |-> [shape |-> sh]] :
              sh \in {"models_null", "array", "invalid"}}
      \cup {[kind |-> "response", status |-> st, body |-> [shape |-> "invalid"]] :
              st \in {404, 500}}
      \cup {[kind |-> k] : k \in {"timeout", "connect_error", "read_error"}}

\* any(m.get("name") == settings.OLLAMA_MODEL for m in models): the scan
\* stops at the first match, and raises at an entry that has no get
RECURSIVE AnyModel(_)
AnyModel(models) ==
    IF models = <<>> THEN "false"
    ELSE IF Head(models).kind # "model" THEN "raise"
    ELSE IF Head(models).name = OLLAMA_MODEL THEN "true"
    ELSE AnyModel(Tail(models))

\* the outcome of the try block of the LLM check
ModelAvailable(b) ==
    IF b.kind # "response" THEN "raise"
    ELSE IF b.status \notin 200..299 THEN "raise"
    ELSE IF b.body.shape # "object" THEN "raise"
    ELSE AnyModel(Get(b.body.value, "models", <<>>))

Service(status, detail) == [status |-> status, detail |-> detail]

\* d[k] = v of a dict
Put(d, k, v) == [x \in DOMAIN d \cup {k} |-> IF x = k THEN v ELSE d[x]]

\* the handler starts and awaits client.get(api_url)
HealthRequest ==
    /\ pc = "service"
    /\ health_pc = "idle"
    /\ services' = <<>>
    /\ overall_status' = "healthy"
    /\ health_pc' = "ollama"
    /\ UNCHANGED <<ollama_probe, search_probe, health_response>>
    /\ UNCHANGED cvars
    /\ UNCHANGED evars
    /\ UNCHANGED pvars
    /\ UNCHANGED <<gvars, ovars, rvars>>

\* "Check Ollama API", from the answer of the LLM backend to the await of
\* the search probe
HealthOllama ==
    /\ pc = "service"
    /\ health_pc = "ollama"
    /\ \E b \in OllamaBackend :
         LET model_available == ModelAvailable(b)
         IN  /\ ollama_probe' = b
             /\ CASE model_available = "true" ->
                       /\ services' = Put(services, "ollama",
                                          Service("healthy", "found"))
                       /\ UNCHANGED overall_status
                  [] model_available = "false" ->
                       /\ services' = Put(services, "ollama",
                                          Service("degraded", "not found"))
                       /\ overall_status' = "degraded"
                  [] OTHER ->
                       /\ services' = Put(services, "ollama",
                                          Service("unhealthy", "Error"))
                       /\ overall_status' = "unhealthy"
    /\ health_pc' = "search"
    /\ UNCHANGED <<search_probe, health_response>>
    /\ UNCHANGED cvars
    /\ UNCHANGED evars
    /\ UNCHANGED pvars
    /\ UNCHANGED <<gvars, ovars, rvars>>

SearchProbeFailed_KeepsOverall ==
    /\ services' = Put(Put(services, "search_api", Service("unhealthy", "Error")),
                       "cache", Service("healthy", "items in cache"))
    /\ UNCHANGED overall_status
\* the except branch of the search check, then "Add cache status"
SearchProbeFailed ==
    /\ services' = Put(Put(services, "search_api", Service("unhealthy", "Error")),
                       "cache", Service("healthy", "items in cache"))
    /\ overall_status' = "unhealthy"

\* "Check Serper.dev API", from the answer of the search backend to the
\* return of the response; only the status of the answer is read
HealthSearch ==
    /\ pc = "service"
    /\ health_pc = "search"
    /\ \E b \in SearchBackend :
         /\ search_probe' = b
         /\ IF b.kind = "response" /\ b.status \in 200..299
            THEN /\ services' =
                      Put(Put(services, "search_api",
                              Service("healthy", "Serper.dev API is responsive")),
                          "cache", Service("healthy", "items in cache"))
                 /\ UNCHANGED overall_status
            ELSE SearchProbeFailed
    /\ health_response' = Return([status |-> overall_status', services |-> services'])
    /\ health_pc' = "returned"
    /\ UNCHANGED ollama_probe
    /\ UNCHANGED cvars
    /\ UNCHANGED evars
    /\ UNCHANGED pvars
    /\ UNCHANGED <<gvars, ovars, rvars>>

NextHealth ==
    \/ HealthRequest
    \/ HealthOllama
    \/ HealthSearch

SpecHealth == InitService /\ [][NextHealth]_vars

Severity(st) ==
    CASE st = "healthy" -> 0 [] st = "degraded" -> 1 [] st = "unhealthy" -> 2

\* the worst of a set of statuses
Worst(S) == CHOOSE st \in S : \A t \in S : Severity(t) <= Severity(st)

\* the status each probe outcome stands for
OllamaStatus ==
    CASE ModelAvailable(ollama_probe) = "true" -> "healthy"
      [] ModelAvailable(ollama_probe) = "false" -> "degraded"
      [] OTHER -> "unhealthy"
SearchStatus ==
    IF search_probe.kind = "response" /\ search_probe.status \in 200..299
    THEN "healthy" ELSE "unhealthy"

\* C23: the health check returns a response for every outcome of the two
\* probes; each sub-service carries the status of its probe (LLM: healthy
\* with the model, degraded without, unhealthy when the probe failed;
\* search: healthy on success, unhealthy on failure; cache: healthy), and the
\* overall status is the worst of the sub-service statuses.
C23_WorstStatus ==
    /\ health_pc = "returned" =>
         LET r == health_response.value
         IN  /\ health_response.kind = "return"
             /\ DOMAIN r.services = {"ollama", "search_api", "cache"}
             /\ r.services["ollama"].status = OllamaStatus
             /\ r.services["search_api"].status = SearchStatus
             /\ r.services["cache"].status = "healthy"
             /\ r.status = Worst({r.services[k].status : k \in DOMAIN r.services})
    /\ health_pc # "returned" => health_response = NoOutcome

\* the model is absent and the search probe succeeded: degraded
C23_Witness ==
    /\ health_pc = "returned"
    /\ ModelAvailable(ollama_probe) = "false"
    /\ SearchStatus = "healthy"
    /\ health_response.value.status = "degraded"

(***************************************************************************)
(* routes.py: unified_endpoint, from the HTTP request                      *)
(***************************************************************************)

\* the HTTP requests of the model.  Without a body the handler reads the
\* query parameters; a body is the JSON of a StreamRequest
HttpRequests ==
    {[body |-> None, params |-> ps] :
        ps \in {[language |-> <<"en">>],
                [query |-> <<>>],
                [query |-> <<"q">>],
                [query |-> <<"q">>, max_search_results |-> 1]}}
      \cup {[body |-> Some(b), params |-> [language |-> <<"en">>]] :
              b \in {[language |-> <<"en">>],
                     [query |-> <<>>],
                     [query |-> <<"q">>]}}

\* the defaults of the query-parameter form
QueryParamDefaults ==
    [temperature |-> 7, max_tokens |-> 4096, top_p |-> 9, top_k |-> 40,
     timeout |-> Some(300)]

\* "Create a StreamRequest from query parameters"
FromQueryParams(params) ==
    StreamRequest(params.query, "r1",
                  Some(Get(params, "max_search_results", 5)),
                  QueryParamDefaults)

\* the StreamRequest of a body that passed validation
FromBody(body) == StreamRequest(body.query, "r1", Some(5), DefaultParams)

\* the query the request names, empty when it names none
RequestQuery(req) ==
    IF req.body = None THEN Get(req.params, "query", <<>>)
    ELSE Get(req.body[1], "query", <<>>)

\* the request has arrived and the handler has not run
InitEntry ==
    /\ http_request \in HttpRequests
    /\ http_status = 0
    /\ query = RequestQuery(http_request)
    /\ max_iterations = MAX_LLM_ITERATIONS
    /\ gpc = "idle"
    /\ rest = TextOk
    /\ InitGenLocals
    /\ pc = "received"
    /\ stream_request = [query |-> query]
    /\ active_streams = NoSession
    /\ emitted = <<>>
    /\ search_results = EmptyResults
    /\ idx = 0
    /\ has_content = FALSE
    /\ chunk_count = 0
    /\ taken = 0
    /\ gen_input = EmptyResults
    /\ search_failed = FALSE
    /\ disc_at = -1
    /\ disc_before_gen = FALSE
    /\ InitRegistry
    /\ InitServices
    /\ InitNoPrompt

Reject_Registers(status) ==
    /\ http_status' = status
    /\ pc' = "rejected"
    /\ RegisterSession("r1", "r1", query)
    /\ UNCHANGED stream_request
\* the request is answered with an error status and the handler is over
Reject(status) ==
    /\ http_status' = status
    /\ pc' = "rejected"
    /\ UNCHANGED <<stream_request, active_streams, background, nreg>>

\* unified_endpoint for an HTTP request, up to the StreamingResponse.  A
\* body without "query" fails the validation of StreamRequest (query: str is
\* required) and the framework answers 422 without calling the handler
UnifiedRequest ==
    /\ pc = "received"
    /\ IF http_request.body # None /\ "query" \notin DOMAIN http_request.body[1]
       THEN Reject(422)
       ELSE IF http_request.body = None
               /\ Get(http_request.params, "query", <<>>) = <<>>
       THEN Reject(400)
       ELSE LET sr == IF http_request.body = None
                      THEN FromQueryParams(http_request.params)
                      ELSE FromBody(http_request.body[1])
            IN  /\ stream_request' = sr
                /\ RegisterSession(sr.request_id, sr.request_id, sr.query)
                /\ http_status' = 200
                /\ pc' = "start"
    /\ UNCHANGED <<emitted, search_results, idx, has_content, chunk_count,
                   taken, gen_input, search_failed, disc_at, disc_before_gen>>
    /\ UNCHANGED gvars
    /\ UNCHANGED <<now, sweep_pc, sleep_left, sweep_now, scan_rest, scan_used,
                   keys_to_remove, scan_start, swept, survived_error>>
    /\ UNCHANGED <<cvars, hvars, http_request, pvars>>

NextEntry == UnifiedRequest \/ StreamBody

SpecEntry == InitEntry /\ [][NextEntry]_vars

\* the request names no query: no parameter and no field of that name
WithoutQuery ==
    IF http_request.body = None THEN "query" \notin DOMAIN http_request.params
    ELSE "query" \notin DOMAIN http_request.body[1]

\* nothing has happened for the request
NothingDone ==
    /\ active_streams = NoSession
    /\ nreg = 0
    /\ \A r \in Ids : background[r] = 0
    /\ emitted = <<>>

\* C24 as stated: once the handler has run, a unified request without a
\* query has been rejected with status 400, no session was registered and no
\* envelope was written.
C24_Rejected400 ==
    WithoutQuery /\ pc # "received" =>
        /\ pc = "rejected"
        /\ http_status = 400
        /\ NothingDone

\* C24 amended: a request is rejected exactly when it has no body and no
\* non-empty query parameter (status 400) or when its body has no query
\* field (status 422, from request validation); a rejected request has
\* registered no session and written no envelope, and a request without a
\* query is always rejected.
C24_RejectedBeforeAnything ==
    /\ WithoutQuery /\ pc # "received" => pc = "rejected"
    /\ pc = "rejected" =>
          /\ NothingDone
          /\ http_status = 400 <=>
                /\ http_request.body = None
                /\ Get(http_request.params, "query", <<>>) = <<>>
          /\ http_status = 422 <=>
                /\ http_request.body # None
                /\ "query" \notin DOMAIN http_request.body[1]
          /\ http_status \in {400, 422}
    /\ pc \notin {"received", "rejected"} => RequestQuery(http_request) = stream_request.query

\* a request without body and without query parameter was answered 400
C24_Witness ==
    /\ pc = "rejected"
    /\ http_request.body = None
    /\ "query" \notin DOMAIN http_request.params
    /\ http_status = 400
    /\ NothingDone

-----------------------------------------------------------------------------
(* services/llm_service.py: format_optimized_prompt, with the texts spelled
   out.  A text is a sequence of one-character strings; the prompt is kept as
   the parts the function appends: the featured answer text, if one is
   written, and one numbered entry per organic result. *)

MaxPromptResults == 6

TOP_RESULTS == 5
SNIPPET_LIMIT == 400
SNIPPET_KEEP == 397
ANSWER_LIMIT == 500
ANSWER_KEEP == 497

\* a text of n characters, no two neighbours alike
TextOfLen(n) == [i \in 1..n |-> IF i % 3 = 0 THEN "a" ELSE IF i % 3 = 1 THEN "b" ELSE "c"]

Ellipsis == <<".", ".", ".">>
NO_SNIPPET == <<"N", "o", " ", "S", "n", "i", "p", "p", "e", "t">>

SnippetLengths == {0, 1, SNIPPET_KEEP, SNIPPET_LIMIT - 1, SNIPPET_LIMIT, SNIPPET_LIMIT + 1, ANSWER_LIMIT + 1}
AnswerLengths == {1, ANSWER_KEEP, ANSWER_LIMIT, ANSWER_LIMIT + 1, ANSWER_LIMIT + 2}

\* organic results: n entries, the k-th with a snippet of the length under
\* test (-1 for an entry without the key), the others with a short snippet

PromptEntry(i, k, sn) ==
    IF i # k THEN [id |-> i, snippet |-> TextOfLen(i)]
    ELSE IF sn = -1 THEN [id |-> i]
    ELSE [id |-> i, snippet |-> TextOfLen(sn)]

PromptOrganic(n, k, sn) == [i \in 1..n |-> PromptEntry(i, k, sn)]

\* answer boxes: the empty dict, one with neither text, and the texts
AnswerBoxes ==
    {<<>>, [title |-> TextOfLen(2)]}
    \cup {[answer |-> TextOfLen(l)] : l \in AnswerLengths}
    \cup {[snippet |-> TextOfLen(l)] : l \in AnswerLengths}
    \cup {[answer |-> TextOfLen(ANSWER_LIMIT + 1), snippet |-> TextOfLen(3)]}

PromptInputs ==
    LET lists == {PromptOrganic(n, k, sn) : n \in 0..MaxPromptResults, k \in {1, TOP_RESULTS},
                                              sn \in SnippetLengths \cup {-1}}
    IN  {[organic |-> o] : o \in lists}
        \cup {<<>>}
        \cup {[organic |-> o, answerBox |-> a] : o \in {PromptOrganic(MaxPromptResults, 1, SNIPPET_LIMIT + 1), <<>>},
                                                a \in AnswerBoxes}
        \cup {[organic |-> PromptOrganic(1, 1, 1), answer_box |-> a] : a \in AnswerBoxes}
        \cup {[organic |-> PromptOrganic(1, 1, 1), answerBox |-> <<>>, answer_box |-> a] : a \in AnswerBoxes}

\* lines 312-315
AnswerBox(sr) ==
    LET answer_box == Get(sr, "answerBox", <<>>)
    IN  IF answer_box = <<>> /\ "answerBox" \notin DOMAIN sr
        THEN Get(sr, "answer_box", <<>>)
        ELSE answer_box

TruncateAnswer_Keep500(text) ==
    IF Len(text) > ANSWER_LIMIT THEN Take(text, ANSWER_LIMIT) \o Ellipsis ELSE text

\* lines 323-324 and 329-330
TruncateAnswer(text) ==
    IF Len(text) > ANSWER_LIMIT THEN Take(text, ANSWER_KEEP) \o Ellipsis ELSE text

\* lines 341-342
TruncateSnippet(text) ==
    IF Len(text) > SNIPPET_LIMIT THEN Take(text, SNIPPET_KEEP) \o Ellipsis ELSE text

\* lines 318-331: the text written under FEATURED ANSWER, if any
FeaturedText(sr) ==
    LET answer_box == AnswerBox(sr)
    IN  IF answer_box = <<>> THEN None
        ELSE IF "answer" \in DOMAIN answer_box THEN Some(TruncateAnswer(answer_box.answer))
        ELSE IF "snippet" \in DOMAIN answer_box THEN Some(TruncateAnswer(answer_box.snippet))
        ELSE None

\* lines 336-348
PromptResults(sr) ==
    LET organic_results == Take(Get(sr, "organic", <<>>), TOP_RESULTS)
    IN  [i \in 1..Len(organic_results) |->
            [number |-> i,
             id |-> organic_results[i].id,
             snippet |-> TruncateSnippet(Get(organic_results[i], "snippet", NO_SNIPPET))]]

format_optimized_prompt(q, sr) ==
    [query |-> q, header |-> AnswerBox(sr) # <<>>, featured |-> FeaturedText(sr), results |-> PromptResults(sr)]

\* the caller's stream request is drawn with the input: the function does
\* not receive it
InitPrompt ==
    /\ query \in Queries
    /\ max_iterations = MAX_LLM_ITERATIONS
    /\ gpc = "idle"
    /\ rest = <<>>
    /\ InitGenLocals
    /\ pc = "prompt"
    /\ stream_request \in
         {StreamRequest(query, None, m, DefaultParams) :
            m \in {None, Some(1), Some(TOP_RESULTS)}}
    /\ active_streams = NoSession
    /\ emitted = <<>>
    /\ search_results = EmptyResults
    /\ idx = 0
    /\ has_content = FALSE
    /\ chunk_count = 0
    /\ taken = 0
    /\ gen_input = EmptyResults
    /\ search_failed = FALSE
    /\ disc_at = -1
    /\ disc_before_gen = FALSE
    /\ InitRegistry
    /\ InitServices
    /\ InitNoHttp
    /\ prompt_args \in PromptInputs
    /\ prompt = NoOutcome

FormatPrompt ==
    /\ pc = "prompt"
    /\ prompt = NoOutcome
    /\ prompt' = Return(format_optimized_prompt(query, prompt_args))
    /\ UNCHANGED <<gvars, ovars, rvars, cvars, hvars, evars, prompt_args>>

NextPrompt == FormatPrompt

SpecPrompt == InitPrompt /\ [][NextPrompt]_vars

EndsWithEllipsis(text) == Len(text) >= 3 /\ SubSeq(text, Len(text) - 2, Len(text)) = Ellipsis

\* text is written as `written` under a limit of `limit` characters
WrittenUnder(text, written, limit) ==
    /\ Len(written) <= limit
    /\ Len(text) <= limit => written = text
    /\ Len(text) > limit =>
           /\ EndsWithEllipsis(written)
           /\ Len(written) = limit
           /\ Take(written, limit - 3) = Take(text, limit - 3)

\* C25: the prompt holds the first min(5, n) organic results in their
\* order, whatever max_search_results the client gave; every snippet written
\* has at most 400 characters and every featured answer text at most 500, a
\* longer text being cut and ended with an ellipsis and a text within the
\* limit written unchanged.
C25_PromptBounds ==
    prompt.kind = "return" =>
        LET given == Get(prompt_args, "organic", <<>>)
            results == prompt.value.results
            box == AnswerBox(prompt_args)
        IN  /\ Len(results) = Min2(5, Len(given))
            /\ \A i \in 1..Len(results) :
                   /\ results[i].id = given[i].id
                   /\ results[i].number = i
                   /\ WrittenUnder(Get(given[i], "snippet", NO_SNIPPET), results[i].snippet, 400)
            /\ prompt.value.featured # None =>
                   /\ box # <<>>
                   /\ WrittenUnder(IF "answer" \in DOMAIN box THEN box.answer ELSE box.snippet,
                                   prompt.value.featured[1], 500)
            /\ (\E k \in {"answer", "snippet"} : k \in DOMAIN box) => prompt.value.featured # None

\* six results with a client limit of one, a snippet and a featured answer
\* both cut
C25_Witness ==
    /\ prompt.kind = "return"
    /\ stream_request.max_search_results = Some(1)
    /\ Len(Get(prompt_args, "organic", <<>>)) = 6
    /\ Len(prompt.value.results) = 5
    /\ Len(Get(prompt_args.organic[1], "snippet", <<>>)) = 401
    /\ EndsWithEllipsis(prompt.value.results[1].snippet)
    /\ Len(Get(Get(prompt_args, "answerBox", <<>>), "answer", <<>>)) = 501
    /\ prompt.value.featured # None
    /\ Len(prompt.value.featured[1]) = 500

-----------------------------------------------------------------------------
(* routes.py: unified_endpoint, registration and first envelope *)

\* C26: the session of a unified request is registered, with disconnected
\* false, before the request's first envelope is emitted: whatever has been
\* emitted, a registration came first, and the step that registers puts the
\* session into the registry with the flag false while nothing is emitted.
C26_RegisteredBeforeFirstEnvelope ==
    /\ [](emitted # <<>> => nreg >= 1)
    /\ [][nreg' > nreg =>
            /\ emitted' = <<>>
            /\ request_id \in DOMAIN active_streams'
            /\ ~active_streams'[request_id].disconnected]_vars

\* the first envelope is out and the session is in the registry
C26_Witness ==
    /\ Len(emitted) = 1
    /\ emitted[1].step = "init"
    /\ nreg = 1
    /\ request_id \in DOMAIN active_streams
    /\ ~active_streams[request_id].disconnected

-----------------------------------------------------------------------------
(* routes.py: generate_unified_stream, the search_result envelopes *)

\* C27: after a successful search with n organic entries and an integer
\* max_search_results, the search_result envelopes are at most
\* max_search_results and at most n, they carry the first entries of the
\* organic list in order, and their positions count 1, 2, ... without gap.
\* A count is never negative, so for a negative max_search_results the cap is
\* read as "none at all".
C27_ResultsCapped ==
    (OfStep("search_complete") # <<>> /\ stream_request.max_search_results # None) =>
        LET results == OfType("search_result")
            cap == IF stream_request.max_search_results[1] < 0 THEN 0
                   ELSE stream_request.max_search_results[1]
        IN  /\ Len(results) <= cap
            /\ Len(results) <= Len(organic)
            /\ \A i \in 1..Len(results) :
                   /\ results[i].entry = organic[i].id
                   /\ results[i].position = i

-----------------------------------------------------------------------------
(* llm_service.py: generate_answer_streaming, the iteration cap *)

\* C28: with a non-negative max_iterations the fragments of backend text
\* forwarded to the consumer never number more than max_iterations, and only
\* frames with text are counted: empty and malformed frames leave the count
\* alone.
C28_ForwardedWithinCap ==
    /\ Len(ContentFragments) <= max_iterations
    /\ iterations <= Len(received)

-----------------------------------------------------------------------------
(* llm_service.py: generate_answer_streaming, the completion phrases *)

\* C29: a completion phrase found in the buffer, in any letter case and also
\* across a chunk boundary, only sets the completion flag: the chunk that
\* completes the phrase and the chunks after it are still forwarded, the loop
\* is left on such a chunk by the iteration cap alone (otherwise by the
\* sentinel or the end of the backend's frames), and the flag, once set, is
\* never cleared.
C29_PhraseOnlyFlags ==
    [][/\ natural_completion_detected => natural_completion_detected'
       /\ (gpc = "stream" /\ received' # received) =>
             LET text_chunk == received'[Len(received')]
                 temp_buffer == buffer \o text_chunk
             IN  Find(temp_buffer, END_TOKEN) = -1 =>
                   /\ IndicatorFound(temp_buffer) => natural_completion_detected'
                   /\ (natural_completion_detected \/ IndicatorFound(temp_buffer)) =>
                         /\ Len(yielded') > Len(yielded)
                         /\ yielded'[Len(yielded) + 1] = text_chunk
                         /\ gpc' = "done" => exit_reason' = "cap"]_vars

\* the phrase came in two chunks, neither holding it alone, and a third chunk
\* was forwarded after the flag was set
C29_Witness ==
    /\ natural_completion_detected
    /\ Len(yielded) >= 3
    /\ Len(received) >= 3
    /\ yielded[3] = received[3]
    /\ IndicatorFound(yielded[1] \o yielded[2])
    /\ ~IndicatorFound(yielded[1])
    /\ ~IndicatorFound(yielded[2])
    /\ exit_reason # "sentinel"

-----------------------------------------------------------------------------
(* llm_service.py: generate_answer_streaming, the final fragment *)

\* C30: no backend text is emitted twice. Up to the sentinel every chunk is
\* forwarded once, as it came; when the sentinel is found the final fragment
\* is one stretch of the received text that starts at or after the end of
\* what was already emitted (the buffer), whatever whitespace the buffer
\* holds and wherever the chunks were cut.
C30_NoTextTwice ==
    LET content == Concat(ContentFragments)
    IN  IF exit_reason = "sentinel"
        THEN /\ buffer = Take(ReceivedText, Len(buffer))
             /\ \E i \in Len(buffer)..Len(ReceivedText) :
                   \E j \in i..Len(ReceivedText) :
                      content = buffer \o SubSeq(ReceivedText, i + 1, j)
        ELSE content = ReceivedText

\* the sentinel was found with a buffer that starts with a blank, and a final
\* fragment was emitted after the buffered text
C30_Witness ==
    /\ exit_reason = "sentinel"
    /\ buffer # <<>>
    /\ buffer[1] = " "
    /\ Len(Concat(ContentFragments)) > Len(buffer)

-----------------------------------------------------------------------------
(* llm_service.py: generate_answer_streaming, the closing sentence *)

Closings == SelectSeq(yielded, LAMBDA f : f = CLOSING)

\* C31: a call yields at most one closing sentence; when the call has ended
\* it has yielded one exactly if a fragment of backend text was yielded,
\* completion was never detected, and the loop ended by the iteration cap, a
\* done frame or the end of the frames (not by a transport error); nothing
\* of the backend's text follows the closing sentence.
C31_OneClosing ==
    /\ Len(Closings) <= 1
    /\ GeneratorEnded =>
          (Len(Closings) = 1 <=>
              /\ ContentFragments # <<>>
              /\ ~natural_completion_detected
              /\ exit_reason \in {"cap", "done", "end"})
    /\ \A i \in 1..Len(yielded) :
          yielded[i] = CLOSING =>
              \A j \in (i + 1)..Len(yielded) : IsFallback(yielded[j])

\* a done frame after forwarded text: the closing sentence is the last
\* fragment
C31_Witness ==
    /\ GeneratorEnded
    /\ exit_reason = "done"
    /\ iterations < max_iterations
    /\ Len(yielded) >= 2
    /\ Len(received) >= 1
    /\ yielded[Len(yielded)] = CLOSING
    /\ yielded[1] = received[1]

-----------------------------------------------------------------------------
(* routes.py: active_streams, the entry of a stream in flight *)

\* requests registered under rid whose completion hook has not run
InFlightUnder(rid) == background[rid]

\* C32: a unified stream in flight has its entry in the registry from its
\* registration until its own completion: while a request registered under
\* an id has not completed the id is registered, and no step other than a
\* completion under that id (a sweep cycle, or the registration or
\* completion of another request, also one with the same request_id)
\* removes or replaces the entry.
C32_InFlightKeepsEntry ==
    /\ [](\A rid \in Ids : InFlightUnder(rid) > 0 => rid \in DOMAIN active_streams)
    /\ [][\A rid \in Ids :
            (/\ InFlightUnder(rid) > 0
             /\ rid \in DOMAIN active_streams
             /\ background'[rid] >= background[rid]) =>
                /\ rid \in DOMAIN active_streams'
                /\ active_streams'[rid] = active_streams[rid]]_vars

====
